---- MODULE Spec2Model ----
(***************************************************************************)
(* The Shakespeare Q&A application: the sentence-mode ranker of the Gemini *)
(* ask route, the line-mode ranker of the demo route, the text clean-up of *)
(* the MIT corpus loader, and the request handlers of the ask, ask-gemini  *)
(* and demo routes with the data directory and the vector-store cache they *)
(* share, the chat page, and the ingestion endpoints with their clean-up,  *)
(* chunker and play extraction.                                            *)
(* JavaScript strings are TLA+ strings (sequences of characters);          *)
(* every string method the routes call is an operator that computes what   *)
(* the method computes.                                                    *)
(***************************************************************************)
EXTENDS Integers, Sequences, FiniteSets, TLC

VARIABLES
    text,       \* the corpus handed to the ranker
    question,   \* the question handed to the ranker
    maxLength,  \* findRelevantPassages' maxLength argument (sentence mode)
    pc,         \* "call" before the ranker ran, then the mode that ran
    ranked,     \* sentence mode: scoredSentences after the sort
    picked,     \* the fragments appended to the result, in append order
    result,     \* the string the ranker returned
    raw,        \* the text handed to the loader's clean-up
    clean,      \* what the last clean-up returned
    passes,     \* how many times the clean-up has run
    dirExists,  \* whether DATA_DIR exists
    files,      \* DATA_DIR: file name -> content
    remote,     \* the body the MIT URL serves, and what the clean-up of
                \* fetchMITShakespeareText makes of it
    vectorStore,\* route -> the module's vectorStore: 0 for null, else the
                \* embeddings handle the store was built with
    embeddings, \* route -> the module's embeddings: 0 for null, else a handle
    handles,    \* how many OpenAIEmbeddings objects were created
    awaiting,   \* client -> the await its request is suspended at
    req,        \* client -> the request: its number, route and JSON body
    ops,        \* client -> the calls its request has made, in order
    loc,        \* client -> the local variables of its handler
    resp,       \* client -> the responses sent for its request
    started,    \* how many requests were received
    faults,     \* how many awaits may still reject for an outside reason
    hist,       \* what earlier requests did: a remote fetch that succeeded,
                \* the handles getVectorStore returned first
    arg,        \* the argument handed to a function that is run on its own
    ret,        \* what that function returned
    fn,         \* "none" before the function ran, then its name
    typed,      \* chat page: the question state, the value of the textarea
    loading,    \* chat page: the loading state
    loadingMessage, \* chat page: the loadingMessage state
    apiProvider,    \* chat page: the apiProvider state
    messages,   \* chat page: the messages state
    pending,    \* chat page: the fetches awaited by askQuestion, each with
                \* the question and provider its call closed over
    submits,    \* chat page: how many submit events were handled
    works,      \* ingestion: play name -> what the play's URL serves
    job         \* ingestion: the locals and the response of the POST handler

rankVars == <<text, question, maxLength, pc, ranked, picked, result>>
cleanVars == <<raw, clean, passes>>
diskVars == <<dirExists, files, remote>>
cacheVars == <<vectorStore, embeddings, handles>>
requestVars == <<awaiting, req, ops, loc, resp, started, faults, hist>>
serveVars == <<diskVars, cacheVars, requestVars>>
fnVars == <<arg, ret, fn>>
chatVars == <<typed, loading, loadingMessage, apiProvider, messages, pending, submits>>
ingestVars == <<works, job>>
pageVars == <<fnVars, chatVars, ingestVars>>
vars == <<rankVars, cleanVars, serveVars, pageVars>>

---------------------------------------------------------------------------
(* JavaScript string methods *)

\* String.prototype.trim's white space, as far as it occurs in the inputs.
WhiteSpace == {" ", "\t", "\n", "\r"}

\* s.substring(from, to): 0-based, to exclusive, clamped to the string.
substring(s, from, to) ==
    SubSeq(s, from + 1, IF to < Len(s) THEN to ELSE Len(s))

substringFrom(s, from) == SubSeq(s, from + 1, Len(s))

LowerMap ==
    [c \in {"A", "B", "C", "D", "E", "F", "G", "H", "I", "J", "K", "L", "M",
            "N", "O", "P", "Q", "R", "S", "T", "U", "V", "W", "X", "Y", "Z"} |->
        CASE c = "A" -> "a" [] c = "B" -> "b" [] c = "C" -> "c" [] c = "D" -> "d"
          [] c = "E" -> "e" [] c = "F" -> "f" [] c = "G" -> "g" [] c = "H" -> "h"
          [] c = "I" -> "i" [] c = "J" -> "j" [] c = "K" -> "k" [] c = "L" -> "l"
          [] c = "M" -> "m" [] c = "N" -> "n" [] c = "O" -> "o" [] c = "P" -> "p"
          [] c = "Q" -> "q" [] c = "R" -> "r" [] c = "S" -> "s" [] c = "T" -> "t"
          [] c = "U" -> "u" [] c = "V" -> "v" [] c = "W" -> "w" [] c = "X" -> "x"
          [] c = "Y" -> "y" [] c = "Z" -> "z"]

lowerChar(c) == IF c \in DOMAIN LowerMap THEN LowerMap[c] ELSE c

\* s.toLowerCase(), halving the string so that long texts stay shallow.
RECURSIVE toLowerCase(_)
toLowerCase(s) ==
    IF Len(s) = 0 THEN ""
    ELSE IF Len(s) = 1 THEN lowerChar(s)
    ELSE LET h == Len(s) \div 2
         IN  toLowerCase(SubSeq(s, 1, h)) \o toLowerCase(SubSeq(s, h + 1, Len(s)))

\* s.includes(k): k occurs in s as a substring (the empty k always does).
includes(s, k) ==
    \E i \in 1..(Len(s) - Len(k) + 1) : SubSeq(s, i, i + Len(k) - 1) = k

\* The least element of a non-empty set of integers.
Least(S) == CHOOSE i \in S : \A j \in S : i <= j

\* s.indexOf(k): 0-based index of the first occurrence, -1 when there is none.
indexOf(s, k) ==
    LET at == {i \in 1..(Len(s) - Len(k) + 1) : SubSeq(s, i, i + Len(k) - 1) = k}
    IN  IF at = {} THEN -1 ELSE Least(at) - 1

RECURSIVE trimStart(_)
trimStart(s) ==
    IF Len(s) > 0 /\ SubSeq(s, 1, 1) \in WhiteSpace
    THEN trimStart(SubSeq(s, 2, Len(s)))
    ELSE s

RECURSIVE trimEnd(_)
trimEnd(s) ==
    IF Len(s) > 0 /\ SubSeq(s, Len(s), Len(s)) \in WhiteSpace
    THEN trimEnd(SubSeq(s, 1, Len(s) - 1))
    ELSE s

\* s.trim()
trim(s) == trimEnd(trimStart(s))

\* s.split(sep) for a one-character separator: every occurrence separates,
\* so adjacent separators yield empty strings and "" yields <<"">>.
RECURSIVE split(_, _)
split(s, sep) ==
    LET at == {i \in 1..Len(s) : SubSeq(s, i, i) = sep}
    IN  IF at = {} THEN <<s>>
        ELSE LET i == Least(at)
             IN  <<SubSeq(s, 1, i - 1)>> \o split(SubSeq(s, i + 1, Len(s)), sep)

\* The characters of the sentence-terminator class [.!?].
Terminators == {".", "!", "?"}

\* s.split(/[.!?]+/): a maximal run of terminators is one separator.
RECURSIVE splitSentences(_)
splitSentences(s) ==
    LET at == {i \in 1..Len(s) : SubSeq(s, i, i) \in Terminators}
    IN  IF at = {} THEN <<s>>
        ELSE LET i == Least(at)
                 past == {j \in (i + 1)..Len(s) : SubSeq(s, j, j) \notin Terminators}
                 j == IF past = {} THEN Len(s) + 1 ELSE Least(past)
             IN  <<SubSeq(s, 1, i - 1)>> \o splitSentences(SubSeq(s, j, Len(s)))

\* parts.join(sep)
RECURSIVE join(_, _)
join(parts, sep) ==
    IF Len(parts) = 0 THEN ""
    ELSE IF Len(parts) = 1 THEN parts[1]
    ELSE parts[1] \o sep \o join(Tail(parts), sep)

---------------------------------------------------------------------------
(* Sentence mode: findRelevantPassages of the Gemini ask route *)

KeywordMinLen == 2
MinSentenceLen == 50
DefaultMaxLength == 8000

\* keywordsOf with the length test off by one (word.length >= 2).
keywordsOfTwoLetters(q) ==
    SelectSeq(split(toLowerCase(q), " "), LAMBDA word : Len(word) >= KeywordMinLen)

\* question.toLowerCase().split(' ').filter(word => word.length > 2)
keywordsOf(q) ==
    SelectSeq(split(toLowerCase(q), " "), LAMBDA word : Len(word) > KeywordMinLen)

\* text.split(/[.!?]+/).filter(s => s.trim().length > 50)
sentencesOf(t) ==
    SelectSeq(splitSentences(t), LAMBDA s : Len(trim(s)) > MinSentenceLen)

\* keywords.reduce((acc, keyword) => acc + (lower.includes(keyword) ? 1 : 0), 0)
scoreOf(lower, keywords) ==
    Cardinality({i \in 1..Len(keywords) : includes(lower, keywords[i])})

\* sentences.map(sentence => ({ sentence: sentence.trim(), score })); unit is
\* the sentence as scored (untrimmed), pos its index in the mapped array.
scoreSentences(sentences, keywords) ==
    [i \in 1..Len(sentences) |->
        [sentence |-> trim(sentences[i]),
         score    |-> scoreOf(toLowerCase(sentences[i]), keywords),
         unit     |-> sentences[i],
         pos      |-> i]]

\* One step of a stable descending sort: x goes after every item whose score
\* is not below its own.
RECURSIVE insertByScore(_, _)
insertByScore(sorted, x) ==
    IF Len(sorted) = 0 THEN <<x>>
    ELSE IF Head(sorted).score >= x.score
         THEN <<Head(sorted)>> \o insertByScore(Tail(sorted), x)
         ELSE <<x>> \o sorted

\* sortByScore with the sort left out.
sortSkipped(items) == items

\* scoredSentences.sort((a, b) => b.score - a.score): Array.prototype.sort is
\* stable, so items of equal score keep their order.
RECURSIVE sortByScore(_)
sortByScore(items) ==
    IF Len(items) = 0 THEN <<>>
    ELSE insertByScore(sortByScore(SubSeq(items, 1, Len(items) - 1)),
                       items[Len(items)])

\* Whether the loop appends item to a result of length len.
fits(item, len, max) == item.score > 0 /\ len + Len(item.sentence) < max

\* for (const item of scoredSentences) { if (fits) result += item.sentence + '. ' }
\* from item i on; taken lists the items appended.
RECURSIVE selectLoop(_, _, _, _)
selectLoop(items, i, max, acc) ==
    IF i > Len(items) THEN acc
    ELSE IF fits(items[i], Len(acc.result), max)
         THEN selectLoop(items, i + 1, max,
                         [result |-> acc.result \o items[i].sentence \o ". ",
                          taken  |-> Append(acc.taken, items[i])])
         ELSE selectLoop(items, i + 1, max, acc)

\* return result || text.substring(0, maxLength)
orFallback(res, t, max) == IF res # "" THEN res ELSE substring(t, 0, max)

findRelevantPassages(t, q, max) ==
    LET scoredSentences == sortByScore(scoreSentences(sentencesOf(t), keywordsOf(q)))
        sel == selectLoop(scoredSentences, 1, max, [result |-> "", taken |-> <<>>])
    IN  [ranked |-> scoredSentences,
         picked |-> sel.taken,
         result |-> orFallback(sel.result, t, max)]

---------------------------------------------------------------------------
(* Line mode: findRelevantPassages of the demo route *)

DemoKeywordMinLen == 3
MinLineLen == 20
DemoMaxLength == 1500

\* question.toLowerCase().split(' ').filter(word => word.length > 3)
demoKeywordsOf(q) ==
    SelectSeq(split(toLowerCase(q), " "), LAMBDA word : Len(word) > DemoKeywordMinLen)

\* lineIsRelevant without the length test.
lineHasKeyword(line, keywords) == scoreOf(toLowerCase(line), keywords) > 0

\* if (score > 0 && line.trim().length > 20)
lineIsRelevant(line, keywords) ==
    scoreOf(toLowerCase(line), keywords) > 0 /\ Len(trim(line)) > MinLineLen

\* for (const line of lines) { ... relevantLines.push(line.trim()) }
relevantLinesOf(lines, keywords) ==
    LET keep == SelectSeq(lines, LAMBDA line : lineIsRelevant(line, keywords))
    IN  [i \in 1..Len(keep) |->
            [sentence |-> trim(keep[i]),
             score    |-> scoreOf(toLowerCase(keep[i]), keywords),
             unit     |-> keep[i],
             pos      |-> i]]

\* truncate with the marker appended whatever the length.
truncateAlways(relevantText) == substring(relevantText, 0, DemoMaxLength) \o "..."

\* relevantText.length > 1500 ? relevantText.substring(0, 1500) + '...' : relevantText
truncate(relevantText) ==
    IF Len(relevantText) > DemoMaxLength
    THEN substring(relevantText, 0, DemoMaxLength) \o "..."
    ELSE relevantText

demoFindRelevantPassages(q, completeWorks) ==
    LET relevantLines == relevantLinesOf(split(completeWorks, "\n"), demoKeywordsOf(q))
    IN  [picked |-> relevantLines,
         result |-> truncate(join([i \in 1..Len(relevantLines) |->
                                       relevantLines[i].sentence], "\n"))]

---------------------------------------------------------------------------
(* Corpus loader: the clean-up in fetchMITShakespeareText *)

\* What the regular expressions' "." does not match, as far as it occurs.
LineTerminators == {"\n", "\r"}

\* s.replace(/from/g, to) for a literal pattern.
RECURSIVE replaceAll(_, _, _)
replaceAll(s, from, to) ==
    LET i == indexOf(s, from)
    IN  IF i = -1 THEN s
        ELSE SubSeq(s, 1, i) \o to \o replaceAll(substringFrom(s, i + Len(from)), from, to)

\* The (1-based) last character of the white-space run that starts at from,
\* from - 1 when there is none.
runEnd(s, from) ==
    LET past == {j \in from..Len(s) : SubSeq(s, j, j) \notin WhiteSpace}
    IN  IF past = {} THEN Len(s) ELSE Least(past) - 1

\* Where /\n\s*\n/ matching from the newline at i ends: \s* is greedy, so at
\* the last newline of the white-space run after i; 0 when that run has none.
blankEnd(s, i) ==
    LET nl == {j \in (i + 1)..runEnd(s, i + 1) : SubSeq(s, j, j) = "\n"}
    IN  IF nl = {} THEN 0 ELSE CHOOSE j \in nl : \A k \in nl : k <= j

\* s.replace(/\n\s*\n/g, '\n\n')
RECURSIVE collapseBlankLines(_)
collapseBlankLines(s) ==
    LET at == {i \in 1..Len(s) : SubSeq(s, i, i) = "\n" /\ blankEnd(s, i) # 0}
    IN  IF at = {} THEN s
        ELSE LET i == Least(at)
             IN  SubSeq(s, 1, i - 1) \o "\n\n"
                   \o collapseBlankLines(SubSeq(s, blankEnd(s, i) + 1, Len(s)))

\* Where open.*?close matching from the open at i ends: at the first close
\* after it, unless a line terminator comes before; 0 when it does not match.
lazyEnd(s, i, open, close) ==
    LET from == i + Len(open)
        at == {j \in from..(Len(s) - Len(close) + 1) :
                   SubSeq(s, j, j + Len(close) - 1) = close}
    IN  IF at = {} THEN 0
        ELSE LET j == Least(at)
             IN  IF \E k \in from..(j - 1) : SubSeq(s, k, k) \in LineTerminators
                 THEN 0
                 ELSE j + Len(close) - 1

\* s.replace(/open.*?close/g, '')
RECURSIVE stripBetween(_, _, _)
stripBetween(s, open, close) ==
    LET at == {i \in 1..(Len(s) - Len(open) + 1) :
                   /\ SubSeq(s, i, i + Len(open) - 1) = open
                   /\ lazyEnd(s, i, open, close) # 0}
    IN  IF at = {} THEN s
        ELSE LET i == Least(at)
             IN  SubSeq(s, 1, i - 1)
                   \o stripBetween(SubSeq(s, lazyEnd(s, i, open, close) + 1, Len(s)),
                                   open, close)

\* s.replace(/\s+/g, ' ')
RECURSIVE collapseWhiteSpace(_)
collapseWhiteSpace(s) ==
    LET at == {i \in 1..Len(s) : SubSeq(s, i, i) \in WhiteSpace}
    IN  IF at = {} THEN s
        ELSE LET i == Least(at)
             IN  SubSeq(s, 1, i - 1) \o " "
                   \o collapseWhiteSpace(SubSeq(s, runEnd(s, i) + 1, Len(s)))

startMarkers ==
    << "THE COMPLETE WORKS OF WILLIAM SHAKESPEARE",
       "THE SONNETS",
       "VENUS AND ADONIS",
       "THE RAPE OF LUCRECE",
       "THE PHOENIX AND THE TURTLE",
       "A LOVER'S COMPLAINT" >>

playMarkers == <<"HAMLET", "MACBETH", "ROMEO AND JULIET", "JULIUS CAESAR">>

\* The index of the marker that comes first in the text, whatever its place
\* in the list.
earliestMarkerIndex(s, markers) ==
    LET at == {indexOf(s, markers[m]) : m \in 1..Len(markers)} \ {-1}
    IN  IF at = {} THEN -1 ELSE Least(at)

\* for (const marker of markers) { index = text.indexOf(marker);
\*   if (index !== -1) { startIndex = index; break; } }
firstMarkerIndex(s, markers) ==
    LET found == {m \in 1..Len(markers) : indexOf(s, markers[m]) # -1}
    IN  IF found = {} THEN -1 ELSE indexOf(s, markers[Least(found)])

\* The start of the content: a start marker, else a play marker, else -1.
startIndexOf(s) ==
    IF firstMarkerIndex(s, startMarkers) # -1
    THEN firstMarkerIndex(s, startMarkers)
    ELSE firstMarkerIndex(s, playMarkers)

\* if (startIndex !== -1) text = text.substring(startIndex)
cutToStart(s) == IF startIndexOf(s) # -1 THEN substringFrom(s, startIndexOf(s)) ELSE s

\* The replace chain and the trim, in the route's order.
normalize(s) ==
    LET unixLines   == replaceAll(replaceAll(s, "\r\n", "\n"), "\r", "\n")
        blankLines  == collapseBlankLines(unixLines)
        noBrackets  == stripBetween(blankLines, "[", "]")
        oneSpace    == collapseWhiteSpace(noBrackets)
        noAngles    == stripBetween(oneSpace, "<<", ">>")
        noNotice    == stripBetween(noAngles, "THIS ELECTRONIC VERSION", "PERMISSION.")
    IN  trim(noNotice)

\* What fetchMITShakespeareText returns for the response data.
cleanText(data) == normalize(cutToStart(data))

---------------------------------------------------------------------------
(* The routes' shared state before any request *)

\* The requests that can be in flight together.
Clients == {"a", "b"}

\* The routes with a module-level vectorStore and embeddings: the ask route
\* with auto-ingestion and the ask route without it.
VectorRoutes == {"ask-auto", "ask"}

\* An empty DATA_DIR listing.
NoFiles == [f \in {} |-> ""]

\* A handler's local variables before it runs.
NoLocals ==
    [ text          |-> "",      \* shakespeareText, fullText
      toRead        |-> <<>>,    \* the files the loop has not read yet
      texts         |-> <<>>,    \* allTexts: what the loop has read
      phase         |-> "post",  \* where in getVectorStore the request is
      newEmb        |-> 0,       \* the embeddings passed to Chroma.fromTexts
      store         |-> 0,       \* what getVectorStore returned
      emb           |-> 0,
      readOK        |-> FALSE,   \* complete_works.txt was read
      fetched       |-> FALSE,   \* the remote fetch succeeded
      fetchedBefore |-> FALSE,   \* hist.fetched when the request arrived
      returnedBefore|-> <<0, 0>> \* hist.returned of the route at that time
    ]

NoBody == [hasQuestion |-> FALSE, question |-> ""]

ServeIdle ==
    /\ dirExists = FALSE /\ files = NoFiles
    /\ remote = [body |-> "", cleaned |-> ""]
    /\ vectorStore = [r \in VectorRoutes |-> 0]
    /\ embeddings = [r \in VectorRoutes |-> 0]
    /\ handles = 0
    /\ awaiting = [p \in Clients |-> "off"]
    /\ req = [p \in Clients |-> [id |-> 0, route |-> "demo", body |-> NoBody]]
    /\ ops = [p \in Clients |-> <<>>]
    /\ loc = [p \in Clients |-> NoLocals]
    /\ resp = [p \in Clients |-> <<>>]
    /\ started = 0
    /\ faults = 0
    /\ hist = [fetched |-> FALSE, returned |-> [r \in VectorRoutes |-> <<0, 0>>]]

\* No function is run on its own.
FnIdle == arg = "" /\ ret = "" /\ fn = "none"

\* The chat page as Home's useState calls leave it.
ChatIdle ==
    /\ typed = ""
    /\ loading = FALSE
    /\ loadingMessage = ""
    /\ apiProvider = "demo"
    /\ messages = <<>>
    /\ pending = <<>>
    /\ submits = 0

\* An ingestion handler before it is called.
NoJob ==
    [ route  |-> "none",  \* the endpoint that was posted to
      at     |-> "idle",  \* the await the handler is suspended at
      texts  |-> <<>>,    \* what fetchPlayText returned, play by play
      plays  |-> <<>>,    \* the plays that were processed, or extractPlays' entries
      toSave |-> <<>>,    \* the entries the loop has not handled yet
      chunks |-> FALSE,   \* allChunks.length > 0
      text   |-> "",      \* playText, fullText
      resp   |-> <<>> ]   \* the responses sent

IngestIdle == works = <<>> /\ job = NoJob

PageIdle == FnIdle /\ ChatIdle /\ IngestIdle

---------------------------------------------------------------------------
(* The ranker's inputs *)

\* How many units a composed corpus holds at most.
MaxUnits == 2

\* s repeated n times.
RECURSIVE repeat(_, _)
repeat(s, n) ==
    IF n = 0 THEN ""
    ELSE LET half == repeat(s, n \div 2)
         IN  IF n % 2 = 0 THEN half \o half ELSE half \o half \o s

TwoKeywords == "Hamlet speaks of death and of the undiscovered country beyond"
HamletLine  == "HAMLET: To be or not to be, that is the question"
NoKeyword   == "The rest is silence and the king sits alone upon his throne"
OneKeyword  == "Death be not proud though some have called thee mighty and dreadful"
TwentyLong  == "Hamlet shall not die"

\* A unit of n characters that names death.
longUnit(n) == "Death " \o repeat("o", n - Len("Death "))

UnitTexts == {TwoKeywords, HamletLine, NoKeyword, OneKeyword, TwentyLong}

\* What ends a unit: a sentence end or a line end.
Separators == {". ", "\n"}

Pieces == {u \o sep : u \in UnitTexts, sep \in Separators}

\* The corpora of at most n pieces.
RECURSIVE corporaOf(_)
corporaOf(n) ==
    IF n = 0 THEN {""}
    ELSE LET shorter == corporaOf(n - 1)
         IN  shorter \cup {c \o p : c \in shorter, p \in Pieces}

\* Corpora whose sentences end their lines, and corpora whose units reach the
\* default maxLength and the demo's cut.
LongCorpora ==
    { NoKeyword \o ".\n" \o OneKeyword \o ".\n",
      OneKeyword \o ".\n" \o TwoKeywords \o ".\n",
      longUnit(DefaultMaxLength - 1) \o ". ",
      longUnit(DefaultMaxLength) \o ". " \o OneKeyword \o ". ",
      longUnit(DefaultMaxLength) \o ". " \o NoKeyword \o ". ",
      longUnit(DemoMaxLength - 1) \o "\n" \o OneKeyword \o "\n",
      NoKeyword \o ". " \o repeat("o", DefaultMaxLength) }

Corpora == corporaOf(MaxUnits) \cup LongCorpora

Questions ==
    { "What does Hamlet say about death?",
      "hamlet death",
      "to be or no",
      "",
      "\ndeath" }

\* The route's default, and a limit that one unit just passes.
MaxLengths == {DefaultMaxLength, Len(TwoKeywords) + 1}

---------------------------------------------------------------------------
(* The ranker as a state machine: the inputs are drawn, then one mode runs *)

InitRank ==
    /\ text \in Corpora
    /\ question \in Questions
    /\ maxLength \in MaxLengths
    /\ pc = "call"
    /\ ranked = <<>>
    /\ picked = <<>>
    /\ result = ""
    /\ raw = "" /\ clean = "" /\ passes = 0
    /\ ServeIdle
    /\ PageIdle

\* The Gemini ask route ranks sentences.
FindRelevantPassages ==
    /\ pc = "call"
    /\ LET r == findRelevantPassages(text, question, maxLength)
       IN  /\ ranked' = r.ranked
           /\ picked' = r.picked
           /\ result' = r.result
    /\ pc' = "sentence"
    /\ UNCHANGED <<text, question, maxLength, cleanVars, serveVars, pageVars>>

\* The demo route ranks lines, with its own fixed limit.
DemoFindRelevantPassages ==
    /\ pc = "call"
    /\ LET r == demoFindRelevantPassages(question, text)
       IN  /\ picked' = r.picked
           /\ result' = r.result
    /\ ranked' = <<>>
    /\ pc' = "line"
    /\ UNCHANGED <<text, question, maxLength, cleanVars, serveVars, pageVars>>

NextRank == FindRelevantPassages \/ DemoFindRelevantPassages

SpecRank == InitRank /\ [][NextRank]_vars

---------------------------------------------------------------------------
(* Claims about the ranker, checked under SpecRank *)

Ran == pc \in {"sentence", "line"}

\* The keywords of the mode that ran.
KeywordsUsed == IF pc = "line" THEN demoKeywordsOf(question) ELSE keywordsOf(question)

\* The text of fragments joined as the sentence mode joins them.
RECURSIVE withPeriods(_)
withPeriods(items) ==
    IF Len(items) = 0 THEN ""
    ELSE Head(items).sentence \o ". " \o withPeriods(Tail(items))

\* C1: in both modes every fragment selected into a non-fallback result
\* contains, lower-cased, at least one keyword of the question.
C1_SelectedContainKeyword ==
    Ran =>
        \A i \in 1..Len(picked) :
            \E k \in 1..Len(KeywordsUsed) :
                includes(toLowerCase(picked[i].sentence), KeywordsUsed[k])

\* C2: in sentence mode the result is made of the selected sentences in
\* descending score order, sentences of equal score in corpus order.
C2_DescendingStable ==
    pc = "sentence" =>
        /\ picked # <<>> => result = withPeriods(picked)
        /\ \A i, j \in 1..Len(picked) :
               i < j =>
                   \/ picked[i].score > picked[j].score
                   \/ /\ picked[i].score = picked[j].score
                      /\ picked[i].pos < picked[j].pos

\* A two-keyword sentence that follows a one-keyword sentence in the corpus
\* and precedes it in the result.
C2_Witness ==
    /\ pc = "sentence"
    /\ Len(picked) = 2
    /\ picked[1].score = 2 /\ picked[2].score = 1
    /\ picked[1].pos > picked[2].pos
    /\ result = picked[1].sentence \o ". " \o picked[2].sentence \o ". "

\* The candidates that scored, in rank order.
ScoredRanked == SelectSeq(ranked, LAMBDA item : item.score > 0)

\* C3: in sentence mode the selected units are a prefix of the score-ranked
\* units: selection stops at the first unit that does not fit, and no unit
\* is truncated.
C3_PrefixOfRanked ==
    pc = "sentence" =>
        /\ picked = SubSeq(ScoredRanked, 1, Len(picked))
        /\ picked # <<>> => result = withPeriods(picked)

\* C4: in sentence mode the returned string is never longer than maxLength.
C4_WithinMaxLength == pc = "sentence" => Len(result) <= maxLength

\* The lines of the corpus that hold a keyword and whose trimmed length is at
\* least minLen, trimmed and newline-joined, then cut as the demo cuts.
expectedLines(minLen) ==
    LET keywords == demoKeywordsOf(question)
        keep == SelectSeq(split(text, "\n"),
                          LAMBDA line : /\ Len(trim(line)) >= minLen
                                        /\ \E k \in 1..Len(keywords) :
                                               includes(toLowerCase(line), keywords[k]))
        joined == join([i \in 1..Len(keep) |-> trim(keep[i])], "\n")
    IN  IF Len(joined) <= DemoMaxLength THEN joined
        ELSE SubSeq(joined, 1, DemoMaxLength) \o "..."

\* C5 as stated: in line mode the result is the newline-joined sequence, in
\* corpus order, of the lines not shorter than 20 characters that contain a
\* keyword, whole when it fits in 1500 characters and otherwise its first
\* 1500 characters followed by "...".
C5_LinesNotShorterThanMin == pc = "line" => result = expectedLines(MinLineLen)

\* C5 as amended: the same of the lines longer than 20 characters (trimmed).
C5_LinesLongerThanMin == pc = "line" => result = expectedLines(MinLineLen + 1)

\* The line of Hamlet's soliloquy is in the result for the question about
\* Hamlet and death.
C5_Witness ==
    /\ pc = "line"
    /\ question = "What does Hamlet say about death?"
    /\ \E i \in 1..Len(picked) : picked[i].sentence = HamletLine
    /\ includes(result, HamletLine)

\* C6: in line mode, when no unit scores, the result is the first
\* maxOutputLength characters of the raw corpus (the whole corpus when it is
\* shorter), with no truncation marker.
C6_LineFallback ==
    (pc = "line" /\ picked = <<>>) => result = substring(text, 0, DemoMaxLength)

\* C7: in sentence mode, whenever a candidate sentence scored above 0 the
\* result holds a scored sentence instead of the raw-corpus fallback.
C7_FallbackOnlyWhenNothingScored ==
    (pc = "sentence" /\ ScoredRanked # <<>>) =>
        /\ picked # <<>>
        /\ result = withPeriods(picked)

\* The space-separated tokens of the lower-cased question.
Tokens == split(toLowerCase(question), " ")

\* C8: in sentence mode a question whose tokens are all at or below the
\* keyword length threshold has no keyword, every candidate scores 0 and the
\* result is the first maxLength characters of the corpus.
C8_ShortQuestionFallsBack ==
    (pc = "sentence" /\ \A i \in 1..Len(Tokens) : Len(Tokens[i]) <= KeywordMinLen) =>
        /\ \A i \in 1..Len(ranked) : ranked[i].score = 0
        /\ picked = <<>>
        /\ result = SubSeq(text, 1, IF Len(text) < maxLength THEN Len(text) ELSE maxLength)

\* A question of two-letter words over a corpus with candidates, longer than
\* maxLength: the result is the cut corpus.
C8_Witness ==
    /\ pc = "sentence"
    /\ question = "to be or no"
    /\ ranked # <<>>
    /\ Len(text) > maxLength
    /\ Len(result) = maxLength

\* C9: for every question the empty corpus yields the empty string, in
\* sentence mode and in line mode.
C9_EmptyCorpus == (Ran /\ text = "") => result = ""

\* The empty corpus was ranked for a question that has keywords.
C9_Witness == Ran /\ text = "" /\ KeywordsUsed # <<>> /\ result = ""

---------------------------------------------------------------------------
(* The clean-up as a state machine: a response is drawn and cleaned, and the
   clean-up is run again on what it returned *)

\* How many pieces a composed response holds at most.
MaxPieces == 3

\* How many times the clean-up runs.
MaxPasses == 2

ResponsePieces ==
    { "To be ", " or not", "<<NOTE>>", "[Exit]", "\n", "\r\n",
      "THE SONNETS", "HAMLET", "MACBETH",
      "THIS ELECTRONIC VERSION", "PERMISSION." }

\* The responses of at most n pieces.
RECURSIVE responsesOf(_)
responsesOf(n) ==
    IF n = 0 THEN {""}
    ELSE LET shorter == responsesOf(n - 1)
         IN  shorter \cup {r \o p : r \in shorter, p \in ResponsePieces}

InitClean ==
    /\ raw \in responsesOf(MaxPieces)
    /\ clean = ""
    /\ passes = 0
    /\ text = "" /\ question = "" /\ maxLength = DefaultMaxLength
    /\ pc = "idle" /\ ranked = <<>> /\ picked = <<>> /\ result = ""
    /\ ServeIdle
    /\ PageIdle

\* The clean-up runs on the response.
CleanResponse ==
    /\ passes = 0
    /\ clean' = cleanText(raw)
    /\ passes' = 1
    /\ UNCHANGED <<raw, rankVars, serveVars, pageVars>>

\* The clean-up runs on its own output.
CleanAgain ==
    /\ passes \in 1..(MaxPasses - 1)
    /\ raw' = clean
    /\ clean' = cleanText(clean)
    /\ passes' = passes + 1
    /\ UNCHANGED <<rankVars, serveVars, pageVars>>

NextClean == CleanResponse \/ CleanAgain

SpecClean == InitClean /\ [][NextClean]_vars

\* C10: the loader's normalization is idempotent: applied to its own output
\* it returns that output unchanged.
C10_Idempotent == passes > 1 => clean = raw

\* The titles the loader looks for, in the order it looks for them.
listedMarkers == startMarkers \o playMarkers

\* The listed markers that occur in the text handed to the clean-up.
presentMarkers == {m \in 1..Len(listedMarkers) : includes(raw, listedMarkers[m])}

\* C11: when the text contains a listed marker, everything before the first
\* occurrence of the first marker of the list that is present is discarded
\* and the cleaned text begins with that marker; when it contains none,
\* nothing is cut from the front.
C11_CutAtFirstListedMarker ==
    passes >= 1 =>
        IF presentMarkers = {}
        THEN clean = normalize(raw)
        ELSE LET marker == listedMarkers[Least(presentMarkers)]
             IN  /\ clean = normalize(substringFrom(raw, indexOf(raw, marker)))
                 /\ substring(clean, 0, Len(marker)) = marker

\* A response with text before its markers, in which a marker later in the
\* list comes first: the cleaned text begins with the earlier-listed one.
C11_Witness ==
    /\ passes = 1
    /\ indexOf(raw, "MACBETH") > 0
    /\ indexOf(raw, "HAMLET") > indexOf(raw, "MACBETH")
    /\ substring(clean, 0, Len("HAMLET")) = "HAMLET"

---------------------------------------------------------------------------
(* The routes as request handlers.  A request is received and then runs from
   await to await; every await of a file, network or model call either
   resolves or rejects. *)

\* How many requests are received one after the other, and how many when
\* they race.
MaxRequests == 2
RaceRequests == 3

\* How many awaits reject for an outside reason (network, disk, model)
\* while requests are handled one at a time, and while they race.
MaxFaults == 2
RaceFaults == 1

\* if (completeWorks.length > 1000)
MinWorksLen == 1000

Routes == {"ask-gemini", "demo"} \cup VectorRoutes

\* A text of n characters as the clean-up leaves it: a title, a sentence
\* that names Hamlet and death, and one long word.
worksOfLength(n) ==
    LET head == "THE SONNETS " \o TwoKeywords \o ". "
    IN  head \o repeat("o", n - Len(head))

\* The shortest text that getShakespeareData accepts as cached copy.
LongWorks == worksOfLength(MinWorksLen + 1)

\* The longest text that it does not accept.
ThousandWorks == worksOfLength(MinWorksLen)

CompleteWorks == "complete_works.txt"
PlayFile == "hamlet.txt"
IndexFile == "gemini_index.json"

AskedQuestion == "What does Hamlet say about death?"

\* The JSON bodies a request carries: no question, an empty one, a question.
Bodies ==
    { NoBody,
      [hasQuestion |-> TRUE, question |-> ""],
      [hasQuestion |-> TRUE, question |-> AskedQuestion] }

\* Only a body without the key has no question.
questionMissing(body) == ~body.hasQuestion

\* if (!question)
noQuestion(body) == ~body.hasQuestion \/ body.question = ""

\* NextResponse.json(body, { status }): the status, the keys of the body and
\* the values of answer, error and source.
json(status, fields, answer, error, source) ==
    [status |-> status, fields |-> fields, answer |-> answer,
     error |-> error, source |-> source]

BadRequest == json(400, {"error"}, "", "No question provided.", "")

\* An error body sent with the default status.
failureAsOk(error) == json(200, {"error", "note"}, "", error, "")

\* NextResponse.json({ error, note }, { status: 500 })
failure(error) == json(500, {"error", "note"}, "", error, "")

\* NextResponse.json({ answer, ... })
answered(answer, fields, source) == json(200, fields, answer, "", source)

\* What the model calls return when they resolve.
GeneratedText == "Hamlet reflects on death in the soliloquy of act three."

\* Append the calls a step makes to the request's record.
call(p, made) == ops' = [ops EXCEPT ![p] = @ \o made]

\* Send a response: the handler returns.
respond(p, r) ==
    /\ resp' = [resp EXCEPT ![p] = Append(@, r)]
    /\ awaiting' = [awaiting EXCEPT ![p] = "done"]

\* Suspend at the next await.
goto(p, label) ==
    /\ awaiting' = [awaiting EXCEPT ![p] = label]
    /\ resp' = resp

\* An await resolves (TRUE) or, while rejections are left, rejects (FALSE).
Outcomes == IF faults > 0 THEN BOOLEAN ELSE {TRUE}

settle(ok) == faults' = IF ok THEN faults ELSE faults - 1

\* fs.readFile of a file of DATA_DIR resolves only when the file is there.
canRead(name) == dirExists /\ name \in DOMAIN files

---------------------------------------------------------------------------
(* The demo route *)

SHAKESPEARE_KNOWLEDGE(key) ==
    CASE key = "hamlet" ->
           [quotes |-> << "To be, or not to be, that is the question.",
                          "The rest is silence.",
                          "Something is rotten in the state of Denmark.",
                          "The lady doth protest too much, methinks." >>,
            themes |-> <<"Death", "Revenge", "Madness", "Corruption", "Existentialism">>,
            characters |-> <<"Hamlet", "Ophelia", "Claudius", "Gertrude", "Polonius">>]
      [] key = "macbeth" ->
           [quotes |-> << "Is this a dagger which I see before me?",
                          "Out, damned spot! Out, I say!",
                          "Fair is foul, and foul is fair.",
                          "Double, double toil and trouble." >>,
            themes |-> <<"Ambition", "Power", "Guilt", "Fate", "Supernatural">>,
            characters |-> <<"Macbeth", "Lady Macbeth", "Banquo", "Duncan", "Macduff">>]
      [] key = "romeo and juliet" ->
           [quotes |-> << "But, soft! what light through yonder window breaks?",
                          "Romeo, Romeo, wherefore art thou Romeo?",
                          "A plague on both your houses!",
                          "For never was a story of more woe than this of Juliet and her Romeo." >>,
            themes |-> <<"Love", "Fate", "Youth", "Family Conflict", "Death">>,
            characters |-> <<"Romeo", "Juliet", "Mercutio", "Tybalt", "Friar Lawrence">>]
      [] OTHER ->
           [quotes |-> << "All the world's a stage, and all the men and women merely players.",
                          "The quality of mercy is not strained.",
                          "Friends, Romans, countrymen, lend me your ears.",
                          "What's in a name? That which we call a rose by any other name would smell as sweet." >>,
            themes |-> <<"Human Nature", "Power", "Love", "Revenge", "Fate">>,
            works  |-> <<"37 plays", "154 sonnets", "Various poems">>]

\* `${title} - Key Quotes: ${info.quotes.join(' ')} Themes: ... ${label}: ...`
knowledgeText(title, info, label, listed) ==
    title \o " - Key Quotes: " \o join(info.quotes, " ")
          \o " Themes: " \o join(info.themes, ", ")
          \o " " \o label \o ": " \o join(listed, ", ")

\* A lookup that tests for Macbeth before Hamlet.
macbethBeforeHamlet(q) ==
    LET questionLower == toLowerCase(q)
    IN  IF includes(questionLower, "macbeth")
        THEN LET info == SHAKESPEARE_KNOWLEDGE("macbeth")
             IN  knowledgeText("Macbeth", info, "Characters", info.characters)
        ELSE IF includes(questionLower, "hamlet")
        THEN LET info == SHAKESPEARE_KNOWLEDGE("hamlet")
             IN  knowledgeText("Hamlet", info, "Characters", info.characters)
        ELSE IF includes(questionLower, "romeo") \/ includes(questionLower, "juliet")
        THEN LET info == SHAKESPEARE_KNOWLEDGE("romeo and juliet")
             IN  knowledgeText("Romeo and Juliet", info, "Characters", info.characters)
        ELSE LET info == SHAKESPEARE_KNOWLEDGE("general")
             IN  knowledgeText("Shakespeare's Works", info, "Works", info.works)

findRelevantInfo(q) ==
    LET questionLower == toLowerCase(q)
    IN  IF includes(questionLower, "hamlet")
        THEN LET info == SHAKESPEARE_KNOWLEDGE("hamlet")
             IN  knowledgeText("Hamlet", info, "Characters", info.characters)
        ELSE IF includes(questionLower, "macbeth")
        THEN LET info == SHAKESPEARE_KNOWLEDGE("macbeth")
             IN  knowledgeText("Macbeth", info, "Characters", info.characters)
        ELSE IF includes(questionLower, "romeo") \/ includes(questionLower, "juliet")
        THEN LET info == SHAKESPEARE_KNOWLEDGE("romeo and juliet")
             IN  knowledgeText("Romeo and Juliet", info, "Characters", info.characters)
        ELSE LET info == SHAKESPEARE_KNOWLEDGE("general")
             IN  knowledgeText("Shakespeare's Works", info, "Works", info.works)

\* try { return await fs.readFile(...) } catch { return null }: the content
\* in a one-element sequence, the empty sequence for null.
getMITShakespeareData(readOK, content) == IF readOK THEN <<content>> ELSE <<>>

\* A handler that does not catch the failed read.
demoUnguarded(q, mitData) ==
    IF mitData = <<>>
    THEN failure("Failed to process question.")
    ELSE answered(mitData[1], {"answer", "source", "note"}, "MIT OpenCourseWare")

\* The try block of the demo POST: if (mitData) {...} else {...}
demoPOST(q, mitData) ==
    IF mitData # <<>> /\ mitData[1] # ""
    THEN answered("Based on Shakespeare's complete works from MIT OpenCourseWare:\n\n"
                    \o demoFindRelevantPassages(q, mitData[1]).result
                    \o "\n\nThis response is based on the actual text of Shakespeare's works, providing authentic quotes and passages.",
                  {"answer", "source", "note"}, "MIT OpenCourseWare")
    ELSE answered("Based on Shakespeare's works, here's what I can tell you:\n\n"
                    \o findRelevantInfo(q)
                    \o "\n\nThis is a demo response using famous Shakespeare quotes and knowledge. For more detailed analysis of specific plays, the full RAG system would provide context from the complete works.",
                  {"answer", "source", "note"}, "Demo Knowledge")

\* What the try block sends for the question asked over the long texts,
\* worked out once.
demoAnswers ==
    (LongWorks :> demoPOST(AskedQuestion, <<LongWorks>>))
        @@ (ThousandWorks :> demoPOST(AskedQuestion, <<ThousandWorks>>))

\* The try block of the demo POST, by the table where it has the case.
demoHandler(q, mitData) ==
    IF q = AskedQuestion /\ mitData # <<>> /\ mitData[1] \in DOMAIN demoAnswers
    THEN demoAnswers[mitData[1]]
    ELSE demoPOST(q, mitData)

\* await getMITShakespeareData(), and the rest of the handler.
DemoRead(p) ==
    /\ awaiting[p] = "demoRead"
    /\ call(p, <<"readFile">>)
    /\ \E ok \in Outcomes :
         /\ settle(ok)
         /\ LET readOK == ok /\ canRead(CompleteWorks)
            IN  respond(p, demoHandler(req[p].body.question,
                                       getMITShakespeareData(readOK,
                                           IF readOK THEN files[CompleteWorks] ELSE "")))
    /\ UNCHANGED <<rankVars, cleanVars, pageVars, diskVars, cacheVars, req, loc, started, hist>>

---------------------------------------------------------------------------
(* The ask-gemini route *)

\* The .txt files readdir lists, in its order, without the skipped ones.
txtFiles(skipped) ==
    SelectSeq(<<CompleteWorks, PlayFile>>,
              LAMBDA f : f \in DOMAIN files /\ f \notin skipped)

\* The rest of POST once getShakespeareData has returned t, with l the
\* locals so far: if (!shakespeareText) return 500; otherwise the model call
\* is awaited.  The passages that findRelevantPassages selects go into the
\* prompt of that call and nowhere else.
GeminiLoaded(p, l, t) ==
    IF t = ""
    THEN /\ respond(p, failure("Failed to load Shakespeare data. Please try again."))
         /\ loc' = [loc EXCEPT ![p] = [l EXCEPT !.text = t]]
    ELSE /\ goto(p, "generate")
         /\ loc' = [loc EXCEPT ![p] = [l EXCEPT !.text = t]]

\* getShakespeareData: await fs.readFile(completeWorksPath); a copy of more
\* than 1000 characters is returned, anything else leads to auto-ingestion.
GeminiReadWorks(p) ==
    /\ awaiting[p] = "readWorks"
    /\ \E ok \in Outcomes :
         /\ settle(ok)
         /\ LET readOK == ok /\ canRead(CompleteWorks)
                l == [loc[p] EXCEPT !.readOK = readOK]
            IN  IF readOK /\ Len(files[CompleteWorks]) > MinWorksLen
                THEN /\ GeminiLoaded(p, l, files[CompleteWorks])
                     /\ call(p, <<"readFile">>)
                ELSE /\ goto(p, "mkdir")
                     /\ loc' = [loc EXCEPT ![p] = l]
                     /\ call(p, <<"readFile", "autoIngestMITData">>)
    /\ UNCHANGED <<rankVars, cleanVars, pageVars, diskVars, cacheVars, req, started, hist>>

\* autoIngestMITData: await fs.mkdir(DATA_DIR, { recursive: true }); a
\* rejection is rethrown as 'Auto-ingestion failed' and caught by
\* getShakespeareData, which lists the directory.
GeminiMkdir(p) ==
    /\ awaiting[p] = "mkdir"
    /\ call(p, <<"mkdir">>)
    /\ \E ok \in Outcomes :
         /\ settle(ok)
         /\ IF ok THEN goto(p, "fetch") /\ dirExists' = TRUE
                  ELSE goto(p, "readdir") /\ dirExists' = dirExists
    /\ UNCHANGED <<rankVars, cleanVars, pageVars, files, remote, cacheVars, req, loc, started, hist>>

\* autoIngestMITData: await fetchMITShakespeareText(): axios.get and the
\* clean-up of the body, which returns cleanText(remote.body).
GeminiFetch(p) ==
    /\ awaiting[p] = "fetch"
    /\ call(p, <<"fetch">>)
    /\ \E ok \in Outcomes :
         /\ settle(ok)
         /\ IF ok
            THEN /\ goto(p, "writeWorks")
                 /\ loc' = [loc EXCEPT ![p].text = remote.cleaned, ![p].fetched = TRUE]
                 /\ hist' = [hist EXCEPT !.fetched = TRUE]
            ELSE /\ goto(p, "readdir")
                 /\ UNCHANGED <<loc, hist>>
    /\ UNCHANGED <<rankVars, cleanVars, pageVars, diskVars, cacheVars, req, started>>

\* The write of the copy as an append: fs.appendFile(complete_works.txt, fullText)
GeminiAppendWorks(p) ==
    /\ awaiting[p] = "writeWorks"
    /\ call(p, <<"writeFile">>)
    /\ \E ok \in Outcomes :
         /\ settle(ok)
         /\ IF ok THEN goto(p, "writeIndex")
                       /\ files' = (CompleteWorks :>
                                      (IF CompleteWorks \in DOMAIN files
                                       THEN files[CompleteWorks] ELSE "") \o loc[p].text)
                                   @@ files
                  ELSE goto(p, "readdir") /\ files' = files
    /\ UNCHANGED <<rankVars, cleanVars, pageVars, dirExists, remote, cacheVars, req, loc, started, hist>>

\* autoIngestMITData: await fs.writeFile(complete_works.txt, fullText)
GeminiWriteWorks(p) ==
    /\ awaiting[p] = "writeWorks"
    /\ call(p, <<"writeFile">>)
    /\ \E ok \in Outcomes :
         /\ settle(ok)
         /\ IF ok THEN goto(p, "writeIndex")
                       /\ files' = (CompleteWorks :> loc[p].text) @@ files
                  ELSE goto(p, "readdir") /\ files' = files
    /\ UNCHANGED <<rankVars, cleanVars, pageVars, dirExists, remote, cacheVars, req, loc, started, hist>>

\* autoIngestMITData: await fs.writeFile(gemini_index.json, ...); return fullText
GeminiWriteIndex(p) ==
    /\ awaiting[p] = "writeIndex"
    /\ call(p, <<"writeFile">>)
    /\ \E ok \in Outcomes :
         /\ settle(ok)
         /\ IF ok THEN /\ GeminiLoaded(p, loc[p], loc[p].text)
                       /\ files' = (IndexFile :> "{ \"source\": \"MIT OpenCourseWare\" }") @@ files
                  ELSE /\ goto(p, "readdir")
                       /\ UNCHANGED <<files, loc>>
    /\ UNCHANGED <<rankVars, cleanVars, pageVars, dirExists, remote, cacheVars, req, started, hist>>

\* getShakespeareData's catch: await fs.readdir(DATA_DIR); the .txt files
\* other than complete_works.txt are read, and '' is returned without any.
GeminiReaddir(p) ==
    /\ awaiting[p] = "readdir"
    /\ call(p, <<"readdir">>)
    /\ \E ok \in Outcomes :
         /\ settle(ok)
         /\ IF ok /\ dirExists /\ txtFiles({CompleteWorks}) # <<>>
            THEN /\ goto(p, "readPlay")
                 /\ loc' = [loc EXCEPT ![p].toRead = txtFiles({CompleteWorks}),
                                       ![p].texts = <<>>]
            ELSE GeminiLoaded(p, loc[p], "")
    /\ UNCHANGED <<rankVars, cleanVars, pageVars, diskVars, cacheVars, req, started, hist>>

\* The loop of the catch: await fs.readFile(file); a file that cannot be
\* read is left out; after the last one the texts are joined.
GeminiReadPlay(p) ==
    /\ awaiting[p] = "readPlay"
    /\ call(p, <<"readFile">>)
    /\ \E ok \in Outcomes :
         /\ settle(ok)
         /\ LET file == Head(loc[p].toRead)
                allTexts == IF ok /\ canRead(file)
                            THEN Append(loc[p].texts, files[file])
                            ELSE loc[p].texts
                l == [loc[p] EXCEPT !.toRead = Tail(@), !.texts = allTexts]
            IN  IF l.toRead # <<>>
                THEN goto(p, "readPlay") /\ loc' = [loc EXCEPT ![p] = l]
                ELSE GeminiLoaded(p, l, IF allTexts # <<>> THEN join(allTexts, "\n\n") ELSE "")
    /\ UNCHANGED <<rankVars, cleanVars, pageVars, diskVars, cacheVars, req, started, hist>>

\* POST: await model.generateContent(prompt); the answer is sent with the
\* source 'MIT OpenCourseWare'; a rejection is answered 500.
GeminiGenerate(p) ==
    /\ awaiting[p] = "generate"
    /\ call(p, <<"generateContent">>)
    /\ \E ok \in Outcomes :
         /\ settle(ok)
         /\ IF ok THEN respond(p, answered(GeneratedText,
                                           {"answer", "model", "source", "note"},
                                           "MIT OpenCourseWare"))
                  ELSE respond(p, failure("Failed to process question with Gemini API."))
    /\ UNCHANGED <<rankVars, cleanVars, pageVars, diskVars, cacheVars, req, loc, started, hist>>

---------------------------------------------------------------------------
(* The ask routes with a vector store: the route with auto-ingestion and the
   route without it.  Their getVectorStore, embedding, search and model
   calls are the same; they differ in what a failure leads to. *)

\* Whether splitText yields any chunk for the texts read.
hasChunks(texts) == \E i \in 1..Len(texts) : trim(texts[i]) # ""

\* What the catch of the route without auto-ingestion throws, and what its
\* POST sends as error: err.message.
NotFoundMessage ==
    "Shakespeare data not found. Please run the ingestion process first by calling POST /api/ingest"

\* The message of an error thrown by an embedding, search or model call.
LibraryMessage == "Request failed with status code 429"

UnableMessage ==
    "Unable to process your question. Please try again or use a different AI provider."

\* A step made the calls `made` and leaves the locals l, suspended at label.
suspend(p, l, made, label) ==
    /\ goto(p, label)
    /\ loc' = [loc EXCEPT ![p] = l]
    /\ call(p, made)

\* A step made the calls `made` and the handler returns r.
finish(p, l, made, r) ==
    /\ respond(p, r)
    /\ loc' = [loc EXCEPT ![p] = l]
    /\ call(p, made)

\* autoIngestData() is called: its first await is fs.mkdir.
autoIngestData(p, l, made, phase) ==
    suspend(p, [l EXCEPT !.phase = phase], made \o <<"autoIngestData">>, "autoMkdir")

\* An await in the try of getVectorStore rejects, or its throw runs.  With
\* auto-ingestion the catch calls autoIngestData(); without it the catch
\* throws and POST answers 500 with the message.
StoreFailed(p, l, made) ==
    IF req[p].route = "ask-auto"
    THEN autoIngestData(p, l, made, "retry")
    ELSE finish(p, l, made, failure(NotFoundMessage))

\* An await in autoIngestData rejects, or its throw runs: the error is
\* rethrown.  When autoIngestData was called in the try of getVectorStore,
\* the catch of getVectorStore calls it again; when it was called in that
\* catch, the error reaches the catch of POST and the demo route is fetched.
IngestFailed(p, l, made) ==
    IF l.phase = "ingest"
    THEN autoIngestData(p, l, made, "retry")
    ELSE suspend(p, l, made, "demoFallback")

\* An await in the try of POST after getVectorStore rejects.
AnswerFailed(p, l, made) ==
    IF req[p].route = "ask-auto"
    THEN suspend(p, l, made, "demoFallback")
    ELSE finish(p, l, made, failure(LibraryMessage))

\* embeddings = new OpenAIEmbeddings(), and Chroma.fromTexts is awaited.
startBuild(p, l, made) ==
    /\ handles' = handles + 1
    /\ embeddings' = [embeddings EXCEPT ![req[p].route] = handles + 1]
    /\ suspend(p, [l EXCEPT !.newEmb = handles + 1], made, "build")

\* getVectorStore: await fs.access(DATA_DIR)
StoreAccess(p) ==
    /\ awaiting[p] = "access"
    /\ \E ok \in Outcomes :
         /\ settle(ok)
         /\ IF ok /\ dirExists
            THEN suspend(p, loc[p], <<"access">>, "listDir")
            ELSE StoreFailed(p, loc[p], <<"access">>)
    /\ UNCHANGED <<rankVars, cleanVars, pageVars, diskVars, cacheVars, req, started, hist>>

\* getVectorStore: await fs.readdir(DATA_DIR); without a .txt file the route
\* with auto-ingestion calls autoIngestData(), the other one throws.
StoreReaddir(p) ==
    /\ awaiting[p] = "listDir"
    /\ \E ok \in Outcomes :
         /\ settle(ok)
         /\ IF ~(ok /\ dirExists)
            THEN StoreFailed(p, loc[p], <<"readdir">>)
            ELSE IF txtFiles({}) # <<>>
            THEN suspend(p, [loc[p] EXCEPT !.toRead = txtFiles({}), !.texts = <<>>],
                         <<"readdir">>, "readFile")
            ELSE IF req[p].route = "ask-auto"
            THEN autoIngestData(p, loc[p], <<"readdir">>, "ingest")
            ELSE StoreFailed(p, loc[p], <<"readdir">>)
    /\ UNCHANGED <<rankVars, cleanVars, pageVars, diskVars, cacheVars, req, started, hist>>

\* getVectorStore: await fs.readFile(file) and the split of its text; after
\* the last file, no chunk at all leads to autoIngestData() or to the throw,
\* and otherwise the embeddings are created and the build is awaited.
StoreReadFile(p) ==
    /\ awaiting[p] = "readFile"
    /\ \E ok \in Outcomes :
         /\ settle(ok)
         /\ LET file == Head(loc[p].toRead)
                l == [loc[p] EXCEPT !.toRead = Tail(@),
                                    !.texts = Append(@, files[file])]
            IN  IF ~(ok /\ canRead(file))
                THEN StoreFailed(p, loc[p], <<"readFile">>) /\ UNCHANGED cacheVars
                ELSE IF l.toRead # <<>>
                THEN suspend(p, l, <<"readFile">>, "readFile") /\ UNCHANGED cacheVars
                ELSE IF hasChunks(l.texts)
                THEN startBuild(p, l, <<"readFile">>) /\ vectorStore' = vectorStore
                ELSE IF req[p].route = "ask-auto"
                THEN autoIngestData(p, l, <<"readFile">>, "ingest") /\ UNCHANGED cacheVars
                ELSE StoreFailed(p, l, <<"readFile">>) /\ UNCHANGED cacheVars
    /\ UNCHANGED <<rankVars, cleanVars, pageVars, diskVars, req, started, hist>>

\* vectorStore = await Chroma.fromTexts(..., embeddings, ...), in
\* getVectorStore and in autoIngestData; return { store: vectorStore,
\* embeddings } reads the module's variables.
StoreBuild(p) ==
    /\ awaiting[p] = "build"
    /\ \E ok \in Outcomes :
         /\ settle(ok)
         /\ LET route == req[p].route
                l == [loc[p] EXCEPT !.store = loc[p].newEmb, !.emb = embeddings[route]]
            IN  IF ok
                THEN /\ vectorStore' = [vectorStore EXCEPT ![route] = loc[p].newEmb]
                     /\ suspend(p, l, <<"Chroma.fromTexts">>, "embedQuery")
                     /\ hist' = IF hist.returned[route] = <<0, 0>>
                                THEN [hist EXCEPT !.returned[route] = <<l.store, l.emb>>]
                                ELSE hist
                ELSE /\ IF loc[p].phase = "try"
                        THEN StoreFailed(p, loc[p], <<"Chroma.fromTexts">>)
                        ELSE IngestFailed(p, loc[p], <<"Chroma.fromTexts">>)
                     /\ UNCHANGED <<vectorStore, hist>>
    /\ UNCHANGED <<rankVars, cleanVars, pageVars, diskVars, embeddings, handles, req, started>>

\* autoIngestData: await fs.mkdir(DATA_DIR, { recursive: true })
IngestMkdir(p) ==
    /\ awaiting[p] = "autoMkdir"
    /\ \E ok \in Outcomes :
         /\ settle(ok)
         /\ IF ok THEN suspend(p, loc[p], <<"mkdir">>, "autoFetch") /\ dirExists' = TRUE
                  ELSE IngestFailed(p, loc[p], <<"mkdir">>) /\ dirExists' = dirExists
    /\ UNCHANGED <<rankVars, cleanVars, pageVars, files, remote, cacheVars, req, started, hist>>

\* autoIngestData: await fetchMITShakespeareText()
IngestFetch(p) ==
    /\ awaiting[p] = "autoFetch"
    /\ \E ok \in Outcomes :
         /\ settle(ok)
         /\ IF ok
            THEN suspend(p, [loc[p] EXCEPT !.text = remote.cleaned, !.fetched = TRUE],
                         <<"fetch">>, "autoWrite")
            ELSE IngestFailed(p, loc[p], <<"fetch">>)
    /\ UNCHANGED <<rankVars, cleanVars, pageVars, diskVars, cacheVars, req, started, hist>>

\* autoIngestData: await fs.writeFile(complete_works.txt, fullText) and the
\* split of the text; without a chunk it throws, and otherwise the
\* embeddings are created and the build is awaited.
IngestWrite(p) ==
    /\ awaiting[p] = "autoWrite"
    /\ \E ok \in Outcomes :
         /\ settle(ok)
         /\ IF ~ok
            THEN IngestFailed(p, loc[p], <<"writeFile">>) /\ UNCHANGED <<files, cacheVars>>
            ELSE /\ files' = (CompleteWorks :> loc[p].text) @@ files
                 /\ IF hasChunks(<<loc[p].text>>)
                    THEN startBuild(p, loc[p], <<"writeFile">>) /\ vectorStore' = vectorStore
                    ELSE IngestFailed(p, loc[p], <<"writeFile">>) /\ UNCHANGED cacheVars
    /\ UNCHANGED <<rankVars, cleanVars, pageVars, dirExists, remote, req, started, hist>>

\* POST: await embeddings.embedQuery(question)
EmbedQuery(p) ==
    /\ awaiting[p] = "embedQuery"
    /\ \E ok \in Outcomes :
         /\ settle(ok)
         /\ IF ok THEN suspend(p, loc[p], <<"embedQuery">>, "search")
                  ELSE AnswerFailed(p, loc[p], <<"embedQuery">>)
    /\ UNCHANGED <<rankVars, cleanVars, pageVars, diskVars, cacheVars, req, started, hist>>

\* POST: await store.similaritySearchVectorWithScore(questionEmbedding, 5)
SimilaritySearch(p) ==
    /\ awaiting[p] = "search"
    /\ \E ok \in Outcomes :
         /\ settle(ok)
         /\ IF ok THEN suspend(p, loc[p], <<"similaritySearch">>, "invoke")
                  ELSE AnswerFailed(p, loc[p], <<"similaritySearch">>)
    /\ UNCHANGED <<rankVars, cleanVars, pageVars, diskVars, cacheVars, req, started, hist>>

\* POST: await llm.invoke(...), and the answer is sent.
Invoke(p) ==
    /\ awaiting[p] = "invoke"
    /\ \E ok \in Outcomes :
         /\ settle(ok)
         /\ IF ok THEN finish(p, loc[p], <<"invoke">>,
                              answered(GeneratedText,
                                       IF req[p].route = "ask-auto"
                                       THEN {"answer", "note"} ELSE {"answer"}, ""))
                  ELSE AnswerFailed(p, loc[p], <<"invoke">>)
    /\ UNCHANGED <<rankVars, cleanVars, pageVars, diskVars, cacheVars, req, started, hist>>

\* The catch of POST in the route with auto-ingestion: await fetch of
\* /api/demo, which runs the demo handler; its answer is sent when the
\* response is ok, and 500 otherwise.
DemoFallback(p) ==
    /\ awaiting[p] = "demoFallback"
    /\ \E up \in Outcomes, ok \in BOOLEAN :
         /\ settle(up)
         /\ LET readOK == ok /\ canRead(CompleteWorks)
                demo == demoHandler(req[p].body.question,
                                    getMITShakespeareData(readOK,
                                        IF readOK THEN files[CompleteWorks] ELSE ""))
            IN  IF up /\ demo.status = 200
                THEN finish(p, loc[p], <<"fetchDemo">>,
                            answered(demo.answer, {"answer", "note"}, ""))
                ELSE finish(p, loc[p], <<"fetchDemo">>, failure(UnableMessage))
    /\ UNCHANGED <<rankVars, cleanVars, pageVars, diskVars, cacheVars, req, started, hist>>

---------------------------------------------------------------------------
(* Requests *)

\* A first await that takes the embeddings handle alone for the cache.
embeddingsOnly(route) ==
    CASE route = "ask-gemini" -> "readWorks"
      [] route = "demo" -> "demoRead"
      [] OTHER -> IF embeddings[route] # 0 THEN "embedQuery" ELSE "access"

\* Where a handler first suspends after the question check.  getVectorStore
\* returns the module's handles at once when both are set.
firstAwait(route) ==
    CASE route = "ask-gemini" -> "readWorks"
      [] route = "demo" -> "demoRead"
      [] OTHER -> IF vectorStore[route] # 0 /\ embeddings[route] # 0
                  THEN "embedQuery" ELSE "access"

\* The locals of a handler when it first suspends.
firstLocals(route) ==
    IF route \in VectorRoutes
    THEN [NoLocals EXCEPT !.phase = "try",
                          !.store = IF firstAwait(route) = "embedQuery"
                                    THEN vectorStore[route] ELSE 0,
                          !.emb = IF firstAwait(route) = "embedQuery"
                                  THEN embeddings[route] ELSE 0,
                          !.returnedBefore = hist.returned[route]]
    ELSE [NoLocals EXCEPT !.fetchedBefore = hist.fetched]

\* POST: const { question } = await req.json(); if (!question) return 400;
\* otherwise the handler runs up to its first await.
Receive(p, routes, max) ==
    /\ awaiting[p] \in {"idle", "done"}
    /\ started < max
    /\ started' = started + 1
    /\ \E route \in routes, body \in Bodies :
         /\ req' = [req EXCEPT ![p] = [id |-> started + 1, route |-> route, body |-> body]]
         /\ ops' = [ops EXCEPT ![p] = <<>>]
         /\ resp' = [resp EXCEPT ![p] = IF noQuestion(body) THEN <<BadRequest>> ELSE <<>>]
         /\ awaiting' = [awaiting EXCEPT ![p] =
                IF noQuestion(body) THEN "done" ELSE firstAwait(route)]
         /\ loc' = [loc EXCEPT ![p] =
                IF noQuestion(body) THEN NoLocals ELSE firstLocals(route)]
    /\ UNCHANGED <<rankVars, cleanVars, pageVars, diskVars, cacheVars, faults, hist>>

\* What the MIT URL serves: a long text under a header, a text that is 1000
\* characters after the clean-up, white space only.
RemoteBodies ==
    { "This Etext is a header\r\n\r\n" \o LongWorks \o "\r\n",
      "This Etext is a header\r\n\r\n" \o ThousandWorks \o "\r\n",
      " \r\n" }

\* DATA_DIR before the first request: missing, empty, with a long
\* complete_works.txt, with an empty one, with one play file only.
Disks ==
    { [dir |-> FALSE, files |-> NoFiles],
      [dir |-> TRUE,  files |-> NoFiles],
      [dir |-> TRUE,  files |-> (CompleteWorks :> LongWorks)],
      [dir |-> TRUE,  files |-> (CompleteWorks :> "")],
      [dir |-> TRUE,  files |-> (PlayFile :> HamletLine \o "\n" \o TwoKeywords \o "\n")] }

InitRequests(clients, disks, bodies, budget) ==
    /\ text = "" /\ question = "" /\ maxLength = DefaultMaxLength
    /\ pc = "idle" /\ ranked = <<>> /\ picked = <<>> /\ result = ""
    /\ raw = "" /\ clean = "" /\ passes = 0
    /\ \E disk \in disks : dirExists = disk.dir /\ files = disk.files
    /\ \E body \in bodies : remote = [body |-> body, cleaned |-> cleanText(body)]
    /\ vectorStore = [r \in VectorRoutes |-> 0]
    /\ embeddings = [r \in VectorRoutes |-> 0]
    /\ handles = 0
    /\ awaiting = [p \in Clients |-> IF p \in clients THEN "idle" ELSE "off"]
    /\ req = [p \in Clients |-> [id |-> 0, route |-> "demo", body |-> NoBody]]
    /\ ops = [p \in Clients |-> <<>>]
    /\ loc = [p \in Clients |-> NoLocals]
    /\ resp = [p \in Clients |-> <<>>]
    /\ started = 0
    /\ faults = budget
    /\ hist = [fetched |-> FALSE, returned |-> [r \in VectorRoutes |-> <<0, 0>>]]
    /\ PageIdle

\* One request at a time.
InitServe == InitRequests({"a"}, Disks, RemoteBodies, MaxFaults)

NextServe ==
    \E p \in Clients :
        \/ Receive(p, Routes, MaxRequests)
        \/ DemoRead(p)
        \/ GeminiReadWorks(p) \/ GeminiMkdir(p) \/ GeminiFetch(p)
        \/ GeminiWriteWorks(p) \/ GeminiWriteIndex(p)
        \/ GeminiReaddir(p) \/ GeminiReadPlay(p) \/ GeminiGenerate(p)
        \/ StoreAccess(p) \/ StoreReaddir(p) \/ StoreReadFile(p) \/ StoreBuild(p)
        \/ IngestMkdir(p) \/ IngestFetch(p) \/ IngestWrite(p)
        \/ EmbedQuery(p) \/ SimilaritySearch(p) \/ Invoke(p) \/ DemoFallback(p)

SpecServe == InitServe /\ [][NextServe]_vars

\* Requests to the vector-store routes in flight together, over a data
\* directory that is missing or holds one play file.
InitRace ==
    InitRequests(Clients,
                 {disk \in Disks : CompleteWorks \notin DOMAIN disk.files},
                 {body \in RemoteBodies : Len(cleanText(body)) > MinWorksLen},
                 RaceFaults)

NextRace ==
    \E p \in Clients :
        \/ Receive(p, VectorRoutes, RaceRequests)
        \/ StoreAccess(p) \/ StoreReaddir(p) \/ StoreReadFile(p) \/ StoreBuild(p)
        \/ IngestMkdir(p) \/ IngestFetch(p) \/ IngestWrite(p)
        \/ EmbedQuery(p) \/ SimilaritySearch(p) \/ Invoke(p) \/ DemoFallback(p)

SpecRace == InitRace /\ [][NextRace]_vars

---------------------------------------------------------------------------
(* Properties of the request handlers *)

\* The handler of client p has returned.
Done(p) == awaiting[p] = "done"

\* Client p sent a request that carries a non-empty question.
Asked(p) ==
    /\ awaiting[p] \notin {"off", "idle"}
    /\ req[p].body.hasQuestion
    /\ req[p].body.question # ""

\* How many times the handler of client p made the call.
made(p, name) == Cardinality({i \in 1..Len(ops[p]) : ops[p][i] = name})

\* The one response of a handler that has returned.
sent(p) == resp[p][1]

LoadFailed(p) ==
    resp[p] = <<failure("Failed to load Shakespeare data. Please try again.")>>

\* C12: once the text has been fetched from the remote source in a load of
\* the Gemini route, the cleaned text is the cached copy when that load is
\* over, and every load that starts afterwards fetches nothing and does not
\* fail.
C12_PersistedThenOffline ==
    \A p \in Clients :
        (Asked(p) /\ req[p].route = "ask-gemini") =>
            /\ (Done(p) /\ loc[p].fetched) =>
                    (canRead(CompleteWorks) /\ files[CompleteWorks] = remote.cleaned)
            /\ loc[p].fetchedBefore =>
                    (made(p, "fetch") = 0 /\ ~(Done(p) /\ LoadFailed(p)))

\* C13: a load of the Gemini route fails only when the cached copy could
\* not be read and the text was not fetched, and it fails whenever no
\* source gave a text.
C13_FailsOnlyWithoutSource ==
    \A p \in Clients :
        (Asked(p) /\ Done(p) /\ req[p].route = "ask-gemini") =>
            /\ LoadFailed(p) => (~loc[p].readOK /\ ~loc[p].fetched)
            /\ (~loc[p].readOK /\ ~loc[p].fetched /\ loc[p].texts = <<>>) => LoadFailed(p)

\* A request without a question: the key is missing or its value is ''.
Unasked(body) == ~body.hasQuestion \/ body.question = ""

\* C14: in every route a request without a question is answered 400 'No
\* question provided.' in the step that receives it, with no call made and
\* with the data directory and the cached handles untouched; nothing
\* happens for it afterwards.
C14_NoQuestionNoStep ==
    [][\A p \in Clients :
          /\ (req'[p] # req[p] /\ Unasked(req'[p].body)) =>
                /\ resp'[p] = <<BadRequest>>
                /\ awaiting'[p] = "done"
                /\ ops'[p] = <<>>
                /\ UNCHANGED <<diskVars, cacheVars>>
          /\ (req'[p] = req[p] /\ Done(p) /\ Unasked(req[p].body)) =>
                (resp'[p] = resp[p] /\ ops'[p] = ops[p])]_vars

\* A second request whose question is the empty string was answered 400 by
\* the Gemini route while the data directory is still missing.
C14_Witness ==
    \E p \in Clients :
        /\ Done(p)
        /\ req[p].id = 2
        /\ req[p].route = "ask-gemini"
        /\ req[p].body = [hasQuestion |-> TRUE, question |-> ""]
        /\ resp[p] = <<BadRequest>>
        /\ ~dirExists

\* C15: a request with a non-empty question has no response while its
\* handler runs and exactly one when it has returned: status 200 with an
\* answer, or status 500 with an error.
C15_ExactlyOneResponse ==
    \A p \in Clients :
        Asked(p) =>
            IF Done(p)
            THEN /\ Len(resp[p]) = 1
                 /\ \/ sent(p).status = 200 /\ "answer" \in sent(p).fields
                                            /\ "error" \notin sent(p).fields
                    \/ sent(p).status = 500 /\ "error" \in sent(p).fields
                                            /\ "answer" \notin sent(p).fields
            ELSE resp[p] = <<>>

\* The route with auto-ingestion answered 500 after its demo fallback failed.
C15_Witness ==
    \E p \in Clients :
        /\ Asked(p) /\ Done(p)
        /\ req[p].route = "ask-auto"
        /\ made(p, "fetchDemo") = 1
        /\ resp[p] = <<failure(UnableMessage)>>

AskRoutes == {"ask-gemini", "ask-auto", "ask"}

\* The handler of client p called the model and did not send its text.
GenerationFailed(p) ==
    /\ made(p, "generateContent") + made(p, "invoke") > 0
    /\ sent(p).answer # GeneratedText

\* C16: in every ask route a failed generation is followed by exactly one
\* fallback attempt, no request makes more than one, and a request is
\* answered 500 only after its fallback attempt.
C16_FallbackBeforeError ==
    \A p \in Clients :
        (Asked(p) /\ Done(p) /\ req[p].route \in AskRoutes) =>
            /\ made(p, "fetchDemo") <= 1
            /\ GenerationFailed(p) => made(p, "fetchDemo") = 1
            /\ sent(p).status = 500 => made(p, "fetchDemo") = 1

\* The calls a request is to make at most once.
OnceCalls ==
    {"fetch", "autoIngestData", "autoIngestMITData", "Chroma.fromTexts",
     "generateContent", "invoke"}

\* C17: within one request the remote fetch, the auto-ingestion, the build
\* of the vector store and the generation call are each made at most once.
C17_AtMostOnce ==
    \A p \in Clients : \A name \in OnceCalls : made(p, name) <= 1

\* The calls by which getVectorStore reads the directory, fetches, writes
\* or builds.
BuildCalls ==
    {"access", "readdir", "readFile", "autoIngestData", "mkdir", "fetch",
     "writeFile", "Chroma.fromTexts"}

\* C18: a request received after getVectorStore has returned a pair of
\* handles gets that same pair, and makes none of the calls that read the
\* directory, fetch, write or build.
C18_SameHandlesAfterFirstReturn ==
    \A p \in Clients :
        (Asked(p) /\ req[p].route \in VectorRoutes
                  /\ loc[p].returnedBefore # <<0, 0>>) =>
            /\ <<loc[p].store, loc[p].emb>> = loc[p].returnedBefore
            /\ \A name \in BuildCalls : made(p, name) = 0

\* C19: every request is served with a store and an embeddings handle of
\* the same build, and when no request is in flight the cache holds the
\* store and the embeddings of one build.
C19_RaceIsBenign ==
    /\ \A p \in Clients :
          (Asked(p) /\ req[p].route \in VectorRoutes /\ loc[p].store # 0) =>
              loc[p].store = loc[p].emb
    /\ (\A p \in Clients : awaiting[p] \in {"off", "idle", "done"}) =>
          \A route \in VectorRoutes :
              vectorStore[route] # 0 => vectorStore[route] = embeddings[route]

\* C20: the demo route answers every request with a non-empty question 200
\* with an answer, whatever the read of the cached corpus gives, and calls
\* nothing but that read.
C20_DemoAlwaysAnswers ==
    \A p \in Clients :
        (Asked(p) /\ req[p].route = "demo") =>
            /\ \A i \in 1..Len(ops[p]) : ops[p][i] = "readFile"
            /\ IF Done(p)
               THEN /\ Len(resp[p]) = 1
                    /\ sent(p).status = 200
                    /\ "answer" \in sent(p).fields
                    /\ sent(p).answer # ""
               ELSE awaiting[p] = "demoRead"

\* The cached corpus file could not be read and the demo route answered
\* from its built-in knowledge.
C20_Witness ==
    \E p \in Clients :
        /\ Asked(p) /\ Done(p)
        /\ req[p].route = "demo"
        /\ ~canRead(CompleteWorks)
        /\ sent(p).status = 200
        /\ sent(p).source = "Demo Knowledge"
        /\ includes(sent(p).answer, "To be, or not to be")

---------------------------------------------------------------------------
(* The offline knowledge lookup run on its own *)

\* How many titles a question mentions at most.
MaxMentions == 3

\* What a question can mention: the titles the lookup knows in several
\* cases, a title it does not know, and a title broken by a space.
Mentions == {"Hamlet", "MACBETH", "romeo", "Juliet", "Othello", "ham let"}

RECURSIVE mentionsOf(_)
mentionsOf(n) ==
    IF n = 0 THEN {<<>>}
    ELSE LET shorter == mentionsOf(n - 1)
         IN  shorter \cup {Append(ms, m) : ms \in shorter, m \in Mentions}

LookupQuestions ==
    {"Tell me about " \o join(ms, " and ") : ms \in mentionsOf(MaxMentions)}

InitLookup ==
    /\ arg \in LookupQuestions
    /\ ret = ""
    /\ fn = "none"
    /\ text = "" /\ question = "" /\ maxLength = DefaultMaxLength
    /\ pc = "idle" /\ ranked = <<>> /\ picked = <<>> /\ result = ""
    /\ raw = "" /\ clean = "" /\ passes = 0
    /\ ServeIdle
    /\ ChatIdle
    /\ IngestIdle

\* const relevantInfo = findRelevantInfo(question)
FindRelevantInfo ==
    /\ fn = "none"
    /\ ret' = findRelevantInfo(arg)
    /\ fn' = "findRelevantInfo"
    /\ UNCHANGED <<arg, rankVars, cleanVars, serveVars, chatVars, ingestVars>>

NextLookup == FindRelevantInfo

SpecLookup == InitLookup /\ [][NextLookup]_vars

\* The entry a question is to get: the first of Hamlet, Macbeth, Romeo and
\* Juliet whose title the lower-cased question mentions, else the general one.
expectedEntry ==
    LET q == toLowerCase(arg)
    IN  IF includes(q, "hamlet") THEN <<"hamlet", "Hamlet">>
        ELSE IF includes(q, "macbeth") THEN <<"macbeth", "Macbeth">>
        ELSE IF includes(q, "romeo") \/ includes(q, "juliet")
        THEN <<"romeo and juliet", "Romeo and Juliet">>
        ELSE <<"general", "Shakespeare's Works">>

\* The entries whose first quote the returned text holds.
returnedEntries ==
    {key \in {"hamlet", "macbeth", "romeo and juliet", "general"} :
        includes(ret, SHAKESPEARE_KNOWLEDGE(key).quotes[1])}

\* C21: for every question the lookup returns the text of exactly one entry,
\* the one the fixed precedence Hamlet, Macbeth, Romeo and Juliet, general
\* gives, under that entry's title.
C21_LookupPrecedence ==
    fn = "findRelevantInfo" =>
        /\ returnedEntries = {expectedEntry[1]}
        /\ substring(ret, 0, Len(expectedEntry[2]) + 3) = expectedEntry[2] \o " - "

\* A question that mentions Macbeth and Juliet before Hamlet got the Hamlet
\* entry alone.
C21_Witness ==
    /\ fn = "findRelevantInfo"
    /\ arg = "Tell me about MACBETH and Juliet and Hamlet"
    /\ returnedEntries = {"hamlet"}

---------------------------------------------------------------------------
(* The play ingestion's text clean-up and its chunker *)

\* s.replace(/\n\s*\n/g, '\n')
RECURSIVE joinBlankLines(_)
joinBlankLines(s) ==
    LET at == {i \in 1..Len(s) : SubSeq(s, i, i) = "\n" /\ blankEnd(s, i) # 0}
    IN  IF at = {} THEN s
        ELSE LET i == Least(at)
             IN  SubSeq(s, 1, i - 1) \o "\n"
                   \o joinBlankLines(SubSeq(s, blankEnd(s, i) + 1, Len(s)))

\* fetchPlayText of the Gemini-powered ingestion, from $('body').text() on:
\* .replace(/\s+/g, ' ').replace(/\[.*?\]/g, '').replace(/\n\s*\n/g, '\n').trim()
playTextOf(bodyText) ==
    trim(joinBlankLines(stripBetween(collapseWhiteSpace(bodyText), "[", "]")))

\* text.match(/.{1,1000}/g)
ChunkSize == 1000

\* A chunker that keeps the full chunks only: text.match(/.{1000}/g) || []
RECURSIVE matchFull(_, _)
matchFull(s, size) ==
    IF Len(s) < size THEN <<>>
    ELSE <<SubSeq(s, 1, size)>> \o matchFull(SubSeq(s, size + 1, Len(s)), size)

\* text.match(/.{1,size}/g) || []: from left to right, the longest run of at
\* most size characters other than line terminators; a line terminator is in
\* no match.
RECURSIVE match(_, _)
match(s, size) ==
    IF s = "" THEN <<>>
    ELSE LET most == IF Len(s) < size THEN Len(s) ELSE size
             stop == {i \in 1..most : SubSeq(s, i, i) \in LineTerminators}
             run  == IF stop = {} THEN most ELSE Least(stop) - 1
         IN  IF run = 0
             THEN match(SubSeq(s, 2, Len(s)), size)
             ELSE <<SubSeq(s, 1, run)>> \o match(SubSeq(s, run + 1, Len(s)), size)

\* How many parts a page body is composed of at most.
MaxParts == 3

\* The parts of a page body: a blank line, a stage direction, a line with
\* a run of spaces, and speeches of one word of ChunkSize - 1 and ChunkSize
\* characters.
PageParts ==
    { "\n\n", "[Exit] ", "To be  or not\r\n",
      repeat("o", ChunkSize - 1), repeat("o", ChunkSize) }

RECURSIVE pagesOf(_)
pagesOf(n) ==
    IF n = 0 THEN {""}
    ELSE LET shorter == pagesOf(n - 1)
         IN  shorter \cup {page \o part : page \in shorter, part \in PageParts}

InitChunk ==
    /\ arg \in pagesOf(MaxParts)
    /\ ret = ""
    /\ fn = "none"
    /\ text = "" /\ question = "" /\ maxLength = DefaultMaxLength
    /\ pc = "idle" /\ ranked = <<>> /\ picked = <<>> /\ result = ""
    /\ raw = "" /\ clean = "" /\ passes = 0
    /\ ServeIdle
    /\ ChatIdle
    /\ IngestIdle

\* const text = await fetchPlayText(play), with arg the text of the body
FetchPlayText ==
    /\ fn = "none"
    /\ ret' = [text |-> playTextOf(arg), chunks |-> <<>>]
    /\ fn' = "fetchPlayText"
    /\ UNCHANGED <<arg, rankVars, cleanVars, serveVars, chatVars, ingestVars>>

\* if (text) { const chunks = text.match(/.{1,1000}/g) || []; ... }
MatchChunks ==
    /\ fn = "fetchPlayText"
    /\ ret.text # ""
    /\ ret' = [ret EXCEPT !.chunks = match(ret.text, ChunkSize)]
    /\ fn' = "match"
    /\ UNCHANGED <<arg, rankVars, cleanVars, serveVars, chatVars, ingestVars>>

NextChunk == FetchPlayText \/ MatchChunks

SpecChunk == InitChunk /\ [][NextChunk]_vars

---------------------------------------------------------------------------
(* Properties of the cached corpus and of the cached vector store *)

\* The handler of client p answered with the text of the individual play
\* files: allTexts.join('\n\n') of getShakespeareData's catch.
UsedPlayFiles(p) == loc[p].texts # <<>> /\ loc[p].text = join(loc[p].texts, "\n\n")

\* C23: a successful answer of the Gemini route says source 'MIT
\* OpenCourseWare' only when its text was the MIT complete works, not the
\* individual play files.
C23_SourceNamesOrigin ==
    \A p \in Clients :
        ( /\ Asked(p) /\ Done(p)
          /\ req[p].route = "ask-gemini"
          /\ sent(p).status = 200
          /\ sent(p).source = "MIT OpenCourseWare" ) => ~UsedPlayFiles(p)

\* The cached copy as a sequence: empty without the file.
copyOf(f) == IF CompleteWorks \in DOMAIN f THEN <<f[CompleteWorks]>> ELSE <<>>

\* The load of client p's Gemini request returned the cached copy.
CacheHit(p) ==
    /\ Asked(p)
    /\ req[p].route = "ask-gemini"
    /\ loc[p].readOK
    /\ made(p, "autoIngestMITData") = 0

\* C24: a Gemini load that reads a copy of more than 1000 characters returns
\* that copy, changes no file and goes on to the model call having made the
\* one read; such a request makes no fetch, mkdir or write; and whenever the
\* copy changes, an ingestion's write has replaced it by the whole cleaned
\* text of the remote source.
C24_CachedCopyReadOnly ==
    /\ [](\A p \in Clients :
            CacheHit(p) =>
                /\ made(p, "fetch") = 0
                /\ made(p, "mkdir") = 0
                /\ made(p, "writeFile") = 0)
    /\ [][ /\ \A p \in Clients :
                ( /\ awaiting[p] = "readWorks"
                  /\ awaiting'[p] # "readWorks"
                  /\ loc'[p].readOK
                  /\ Len(files[CompleteWorks]) > MinWorksLen ) =>
                    /\ loc'[p].text = files[CompleteWorks]
                    /\ awaiting'[p] = "generate"
                    /\ ops'[p] = <<"readFile">>
                    /\ diskVars' = diskVars
           /\ copyOf(files') # copyOf(files) =>
                /\ \E p \in Clients : awaiting[p] \in {"writeWorks", "autoWrite"}
                /\ copyOf(files') = <<remote.cleaned>>
         ]_vars

\* The second request is answered from the copy that the first one wrote.
C24_Witness ==
    \E p \in Clients :
        /\ CacheHit(p) /\ Done(p)
        /\ req[p].id = 2
        /\ hist.fetched
        /\ ops[p] = <<"readFile", "generateContent">>
        /\ sent(p).status = 200
        /\ loc[p].text = remote.cleaned
        /\ copyOf(files) = <<remote.cleaned>>

\* C25: a vector store in the cache has its embeddings handle; a request is
\* given the cached handles exactly when both are set and otherwise starts
\* getVectorStore's build from the data directory.
C25_StoreImpliesEmbeddings ==
    /\ [](\A r \in VectorRoutes : vectorStore[r] # 0 => embeddings[r] # 0)
    /\ [][\A p \in Clients :
            ( /\ started' = started + 1
              /\ req'[p].id = started'
              /\ Asked(p)' ) =>
                LET r == req'[p].route
                IN  IF vectorStore[r] # 0 /\ embeddings[r] # 0
                    THEN /\ awaiting'[p] = "embedQuery"
                         /\ loc'[p].store = vectorStore[r]
                         /\ loc'[p].emb = embeddings[r]
                    ELSE /\ awaiting'[p] = "access"
                         /\ loc'[p].store = 0
         ]_vars

\* After a build of the route has failed and left the embeddings handle
\* alone in the cache, the next request starts a build.
C25_Witness ==
    \E p, q \in Clients :
        /\ p # q
        /\ Done(q) /\ made(q, "Chroma.fromTexts") > 0
        /\ req[q].route = req[p].route
        /\ req[p].id > req[q].id
        /\ Asked(p) /\ awaiting[p] = "access"
        /\ embeddings[req[p].route] # 0
        /\ vectorStore[req[p].route] = 0

---------------------------------------------------------------------------
(* The chat page: Home and its askQuestion and clearChat *)

\* How many submit events the page receives.
MaxSubmits == 3

\* <option value="demo">, "openai", "gemini"
Providers == {"demo", "openai", "gemini"}

\* What is typed into the textarea: nothing, blanks, a question.
Typed == {"", "  ", AskedQuestion}

\* askQuestion's switch (apiProvider)
endpointOf(provider) ==
    CASE provider = "openai" -> "/api/ask"
      [] provider = "gemini" -> "/api/ask-gemini"
      [] OTHER -> "/api/demo"

\* askQuestion's loading message for the provider
loadingMessageOf(provider) ==
    CASE provider = "openai" -> "Setting up OpenAI and ingesting Shakespeare data..."
      [] provider = "gemini" -> "Processing with Google Gemini..."
      [] OTHER -> "Thinking..."

\* A guard that tests the question only: if (!question.trim()) return;
blankOnly(q, busy) == trim(q) = ""

\* if (!question.trim() || loading) return;
returnsEarly(q, busy) == trim(q) = "" \/ busy

\* What the backends send: the answer of a 200, the error of another status.
BackendError == "Failed to process question with Gemini API."

\* { role: 'user', content: question }; n is the submit it belongs to.
userMessage(q, n) ==
    [role |-> "user", content |-> q, provider |-> "", endpoint |-> "", re |-> n]

\* { role: 'assistant', content, provider: apiProvider } of the call c, whose
\* question, apiProvider and endpoint are those of the render it was made in.
assistantMessage(c, content) ==
    [role |-> "assistant", content |-> content, provider |-> c.apiProvider,
     endpoint |-> c.endpoint, re |-> c.id]

InitChat ==
    /\ ChatIdle
    /\ FnIdle
    /\ IngestIdle
    /\ text = "" /\ question = "" /\ maxLength = DefaultMaxLength
    /\ pc = "idle" /\ ranked = <<>> /\ picked = <<>> /\ result = ""
    /\ raw = "" /\ clean = "" /\ passes = 0
    /\ ServeIdle

\* onChange of the textarea, which is disabled while loading
Type(q) ==
    /\ ~loading
    /\ typed' = q
    /\ UNCHANGED <<loading, loadingMessage, apiProvider, messages, pending, submits>>
    /\ UNCHANGED <<rankVars, cleanVars, serveVars, fnVars, ingestVars>>

\* onChange of the select, which is disabled while loading
SelectProvider(v) ==
    /\ ~loading
    /\ apiProvider' = v
    /\ UNCHANGED <<typed, loading, loadingMessage, messages, pending, submits>>
    /\ UNCHANGED <<rankVars, cleanVars, serveVars, fnVars, ingestVars>>

\* askQuestion up to await fetch(endpoint, ...): a submit of the form or
\* Enter in the textarea.
Submit ==
    /\ submits < MaxSubmits
    /\ submits' = submits + 1
    /\ IF returnsEarly(typed, loading)
       THEN UNCHANGED <<typed, loading, loadingMessage, apiProvider, messages, pending>>
       ELSE /\ messages' = Append(messages, userMessage(typed, submits + 1))
            /\ loading' = TRUE
            /\ loadingMessage' = loadingMessageOf(apiProvider)
            /\ pending' = Append(pending,
                                 [id |-> submits + 1, question |-> typed,
                                  apiProvider |-> apiProvider,
                                  endpoint |-> endpointOf(apiProvider),
                                  stage |-> "fetch", ok |-> FALSE])
            /\ UNCHANGED <<typed, apiProvider>>
    /\ UNCHANGED <<rankVars, cleanVars, serveVars, fnVars, ingestVars>>

\* const clearChat = () => { setMessages([]); }; the New Chat button is
\* enabled while loading too.
ClearChat ==
    /\ messages' = <<>>
    /\ UNCHANGED <<typed, loading, loadingMessage, apiProvider, pending, submits>>
    /\ UNCHANGED <<rankVars, cleanVars, serveVars, fnVars, ingestVars>>

\* The call pending[i] appends its message and has no finally block.
withoutFinally(i, content) ==
    /\ messages' = Append(messages, assistantMessage(pending[i], content))
    /\ pending' = SubSeq(pending, 1, i - 1) \o SubSeq(pending, i + 1, Len(pending))
    /\ UNCHANGED <<typed, loading, loadingMessage>>

\* The call pending[i] appends its message and runs finally: setMessages(prev
\* => [...prev, m]); setLoading(false); setLoadingMessage(''); setQuestion('')
finally(i, content) ==
    /\ messages' = Append(messages, assistantMessage(pending[i], content))
    /\ loading' = FALSE
    /\ loadingMessage' = ""
    /\ typed' = ""
    /\ pending' = SubSeq(pending, 1, i - 1) \o SubSeq(pending, i + 1, Len(pending))

\* await fetch(endpoint, ...) settles: a response whose status is 200 or
\* not, or a rejection, which the catch answers.
FetchSettles(i) ==
    /\ i \in 1..Len(pending)
    /\ pending[i].stage = "fetch"
    /\ \E outcome \in {"ok", "not ok", "rejected"} :
         IF outcome = "rejected"
         THEN finally(i, "Error contacting backend.")
         ELSE /\ pending' = [pending EXCEPT ![i].stage = "json",
                                            ![i].ok = (outcome = "ok")]
              /\ UNCHANGED <<typed, loading, loadingMessage, messages>>
    /\ UNCHANGED <<apiProvider, submits>>
    /\ UNCHANGED <<rankVars, cleanVars, serveVars, fnVars, ingestVars>>

\* await res.json() settles: data.answer of a 200, `Error: ${errorData.error}`
\* of another status, and the catch when the body is not JSON.
JsonSettles(i) ==
    /\ i \in 1..Len(pending)
    /\ pending[i].stage = "json"
    /\ \E parsed \in BOOLEAN :
         finally(i, IF ~parsed THEN "Error contacting backend."
                    ELSE IF pending[i].ok THEN GeneratedText
                    ELSE "Error: " \o BackendError)
    /\ UNCHANGED <<apiProvider, submits>>
    /\ UNCHANGED <<rankVars, cleanVars, serveVars, fnVars, ingestVars>>

NextChat ==
    \/ \E q \in Typed : Type(q)
    \/ \E v \in Providers : SelectProvider(v)
    \/ Submit
    \/ ClearChat
    \/ \E i \in 1..MaxSubmits : FetchSettles(i) \/ JsonSettles(i)

SpecChat == InitChat /\ [][NextChat]_vars

\* A promise that fetch or res.json() returned settles.
SpecChatFair ==
    SpecChat /\ WF_vars(\E i \in 1..MaxSubmits : FetchSettles(i) \/ JsonSettles(i))

\* The request of submit n is in flight.
InFlight(n) == \E i \in 1..Len(pending) : pending[i].id = n

\* What an assistant message may say.
Replies == {GeneratedText, "Error: " \o BackendError, "Error contacting backend."}

\* C26: a request in flight is eventually over, and the step that ends it
\* appends one assistant message for it, which is the answer, 'Error: ' and
\* the error, or 'Error contacting backend.', and leaves loading false, the
\* loading message empty and the input cleared.
C26_SubmittedCompletes ==
    /\ \A n \in 1..MaxSubmits : InFlight(n) ~> ~InFlight(n)
    /\ [][\A n \in 1..MaxSubmits :
            (InFlight(n) /\ ~InFlight(n)') =>
                /\ Len(messages') = Len(messages) + 1
                /\ SubSeq(messages', 1, Len(messages)) = messages
                /\ LET m == messages'[Len(messages')]
                   IN  m.role = "assistant" /\ m.re = n /\ m.content \in Replies
                /\ ~loading' /\ loadingMessage' = "" /\ typed' = ""
         ]_vars

\* A request ended with the backend's error shown.
C26_Witness ==
    /\ submits > 0 /\ pending = <<>> /\ ~loading /\ typed = ""
    /\ Len(messages) = 2
    /\ messages[1] = userMessage(AskedQuestion, messages[1].re)
    /\ messages[2].content = "Error: " \o BackendError

\* C27: at most one request is in flight; a submit with a blank question or
\* while loading changes nothing on the page; and an assistant message
\* records the provider whose endpoint its request was sent to.
C27_OneRequestInFlight ==
    /\ [](Len(pending) <= 1)
    /\ [](\A i \in 1..Len(messages) :
            messages[i].role = "assistant" =>
                messages[i].endpoint = endpointOf(messages[i].provider))
    /\ [][(submits' = submits + 1 /\ (trim(typed) = "" \/ loading)) =>
            UNCHANGED <<typed, loading, loadingMessage, apiProvider, messages, pending>>
         ]_vars

\* Of two submits the second started nothing: the page shows the one
\* exchange of the first, served by the Gemini endpoint.
C27_Witness ==
    /\ submits = 2
    /\ Len(messages) = 2
    /\ messages[2].role = "assistant" /\ messages[2].re = 1
    /\ messages[2].provider = "gemini"
    /\ messages[2].endpoint = "/api/ask-gemini"

\* C28: every assistant message in the list comes directly after the user
\* message of its question.
C28_AnswerFollowsQuestion ==
    \A i \in 1..Len(messages) :
        messages[i].role = "assistant" =>
            /\ i > 1
            /\ messages[i - 1].role = "user"
            /\ messages[i - 1].re = messages[i].re

---------------------------------------------------------------------------
(* The ingestion endpoints: POST /api/ingest (the plays, one page each) and
   POST /api/ingest-mit (the complete works, split into plays) *)

\* How many works of the list the model fetches, and how many awaits of an
\* ingestion may reject for an outside reason.
MaxWorks == 3
IngestFaults == 1

\* The names of SHAKESPEARE_WORKS, in list order.
SHAKESPEARE_WORKS ==
    << "hamlet", "macbeth", "romeo_juliet", "lear", "othello", "julius_caesar",
       "merchant", "midsummer", "tempest", "twelfth_night", "much_ado",
       "asyoulikeit", "taming_shrew", "merry_wives", "comedy_errors",
       "two_gentlemen", "measure", "allswell", "cymbeline", "pericles",
       "winters_tale", "henryv", "henryviii", "richardii", "richardiii", "john",
       "1henryiv", "2henryiv", "1henryvi", "2henryvi", "3henryvi", "cleopatra",
       "coriolanus", "titus", "timon", "troilus_cressida", "lll" >>

Works == SubSeq(SHAKESPEARE_WORKS, 1, MaxWorks)

\* fetchPlayText of /api/ingest from $('body').text() on:
\* text.replace(/\s+/g, ' ').trim(), .replace(/\[.*?\]/g, ''),
\* .replace(/\n\s*\n/g, '\n')
githubTextOf(bodyText) ==
    joinBlankLines(stripBetween(trim(collapseWhiteSpace(bodyText)), "[", "]"))

\* if (text): any text that is not empty is processed.
notEmpty(playText) == playText # ""

\* if (playText.length > 100)
MinPlayLen == 100
meaningful(playText) == Len(playText) > MinPlayLen

\* What a play's URL serves: nothing (the request fails), a short page, a
\* page whose text is MinPlayLen characters, and a page of a play.
PlayPage ==
    "ACT I\n\nSCENE I. Elsinore.\n\n[Enter two sentinels]\n\n"
      \o "BERNARDO  Who's there?\nFRANCISCO  Nay, answer me: stand, and unfold yourself.\n"
      \o "BERNARDO  Long live the king!\n\n[Exeunt]\n"

PageBodies == {"\n  Not Found \n", repeat("o", MinPlayLen) \o "\n", PlayPage}

\* With each page, the text that fetchPlayText makes of it.
Pages ==
    {[ok |-> FALSE, body |-> "", text |-> ""]}
      \cup {[ok |-> TRUE, body |-> body, text |-> githubTextOf(body)] : body \in PageBodies}

\* The play titles that extractPlays looks for, in list order.
playTitles ==
    << "HAMLET", "MACBETH", "ROMEO AND JULIET", "JULIUS CAESAR", "OTHELLO", "KING LEAR",
       "A MIDSUMMER NIGHT'S DREAM", "THE MERCHANT OF VENICE", "THE TEMPEST", "TWELFTH NIGHT",
       "AS YOU LIKE IT", "MUCH ADO ABOUT NOTHING", "THE TAMING OF THE SHREW", "HENRY V",
       "RICHARD III", "ANTONY AND CLEOPATRA", "CORIOLANUS", "TITUS ANDRONICUS", "TIMON OF ATHENS",
       "TROILUS AND CRESSIDA", "LOVE'S LABOUR'S LOST", "ALL'S WELL THAT ENDS WELL",
       "MEASURE FOR MEASURE", "THE COMEDY OF ERRORS", "THE TWO GENTLEMEN OF VERONA",
       "THE WINTER'S TALE", "CYMBELINE", "PERICLES", "THE TWO NOBLE KINSMEN",
       "HENRY IV, PART 1", "HENRY IV, PART 2", "HENRY VI, PART 1", "HENRY VI, PART 2",
       "HENRY VI, PART 3", "HENRY VIII", "RICHARD II", "KING JOHN" >>

\* s.toUpperCase()
upperChar(c) ==
    IF \E u \in DOMAIN LowerMap : LowerMap[u] = c
    THEN CHOOSE u \in DOMAIN LowerMap : LowerMap[u] = c
    ELSE c

RECURSIVE toUpperCase(_)
toUpperCase(s) ==
    IF Len(s) = 0 THEN ""
    ELSE IF Len(s) = 1 THEN upperChar(s)
    ELSE LET h == Len(s) \div 2
         IN  toUpperCase(SubSeq(s, 1, h)) \o toUpperCase(SubSeq(s, h + 1, Len(s)))

\* s.split(/\n\s*\n/)
RECURSIVE splitBlankLines(_)
splitBlankLines(s) ==
    LET at == {i \in 1..Len(s) : SubSeq(s, i, i) = "\n" /\ blankEnd(s, i) # 0}
    IN  IF at = {} THEN <<s>>
        ELSE LET i == Least(at)
             IN  <<SubSeq(s, 1, i - 1)>>
                   \o splitBlankLines(SubSeq(s, blankEnd(s, i) + 1, Len(s)))

\* The first title of the list that the section includes in upper case, 0
\* without one.
titleOf(section) ==
    LET found == {t \in 1..Len(playTitles) : includes(toUpperCase(section), playTitles[t])}
    IN  IF found = {} THEN 0 ELSE Least(found)

\* plays[name] = text: an entry that exists keeps its place in Object.keys.
setEntry(plays, name, playText) ==
    IF \E k \in 1..Len(plays) : plays[k].name = name
    THEN [k \in 1..Len(plays) |->
            IF plays[k].name = name THEN [name |-> name, text |-> playText] ELSE plays[k]]
    ELSE Append(plays, [name |-> name, text |-> playText])

\* if (currentPlay && currentPlayText.trim()) plays[currentPlay] = currentPlayText.trim()
saveCurrent(plays, currentPlay, currentPlayText) ==
    IF currentPlay # "" /\ trim(currentPlayText) # ""
    THEN setEntry(plays, currentPlay, trim(currentPlayText))
    ELSE plays

\* The loop of extractPlays over the sections from the k-th on.
RECURSIVE extractFrom(_, _, _, _, _)
extractFrom(sections, k, plays, currentPlay, currentPlayText) ==
    IF k > Len(sections) THEN saveCurrent(plays, currentPlay, currentPlayText)
    ELSE IF titleOf(sections[k]) # 0
    THEN extractFrom(sections, k + 1, saveCurrent(plays, currentPlay, currentPlayText),
                     playTitles[titleOf(sections[k])], sections[k])
    ELSE IF currentPlay # ""
    THEN extractFrom(sections, k + 1, plays, currentPlay,
                     currentPlayText \o "\n\n" \o sections[k])
    ELSE extractFrom(sections, k + 1, plays, currentPlay, currentPlayText)

\* extractPlays(text): the entries of the object, in the order of its keys.
extractPlays(fullText) == extractFrom(splitBlankLines(fullText), 1, <<>>, "", "")

\* playName.toLowerCase().replace(/[^a-z0-9]/g, '_') + '.txt'
Alphanumeric ==
    {LowerMap[u] : u \in DOMAIN LowerMap}
      \cup {"0", "1", "2", "3", "4", "5", "6", "7", "8", "9"}

fileNameOf(playName) ==
    LET lower == toLowerCase(playName)
    IN  join([k \in 1..Len(lower) |->
                IF SubSeq(lower, k, k) \in Alphanumeric THEN SubSeq(lower, k, k) ELSE "_"],
             "") \o ".txt"

\* What the MIT URL serves to the ingestion: the works under a header, with
\* no play, one play, two and three plays, each under its title.
Speech ==
    "Enter the players.\r\nFIRST PLAYER\r\n  Speak the speech, I pray you, as I "
      \o "pronounced it to you, trippingly on the tongue.\r\n  Nor do not saw the "
      \o "air too much with your hand, thus.\r\n\r\n"

NoPlayBody == "This Etext is a header\r\n\r\nTHE SONNETS\r\n\r\n" \o Speech

MitBodies ==
    { NoPlayBody,
      "This Etext is a header\r\n\r\nHAMLET\r\n\r\n" \o Speech,
      "This Etext is a header\r\n\r\nHAMLET\r\n\r\n" \o Speech
         \o "MACBETH\r\n\r\n" \o Speech,
      "This Etext is a header\r\n\r\nOTHELLO\r\n\r\n" \o Speech
         \o "HAMLET\r\n\r\n" \o Speech \o "MACBETH\r\n\r\n" \o Speech }

\* NextResponse.json of the ingestion endpoints: the status, the error, and
\* the plays and source of a 200.
ingested(plays, source) == [status |-> 200, error |-> "", plays |-> plays, source |-> source]
ingestFailure(error) == [status |-> 500, error |-> error, plays |-> 0, source |-> ""]

\* With each body, the text that fetchMITShakespeareText makes of it.
MitRemotes == {[body |-> body, cleaned |-> cleanText(body)] : body \in MitBodies}

NoWorksMessage == "No Shakespeare works were successfully ingested."

\* The message of an error thrown by fs or by Chroma.
SystemMessage == "EACCES: permission denied"

InitIngest ==
    /\ works \in [{Works[k] : k \in 1..Len(Works)} -> Pages]
    /\ job = NoJob
    /\ remote \in MitRemotes
    \* the two endpoints read nothing of each other: one of the two sources
    \* is the plain one
    /\ (\A name \in DOMAIN works : ~works[name].ok) \/ remote.body = NoPlayBody
    /\ dirExists = FALSE /\ files = NoFiles
    /\ vectorStore = [r \in VectorRoutes |-> 0]
    /\ embeddings = [r \in VectorRoutes |-> 0]
    /\ handles = 0
    /\ awaiting = [p \in Clients |-> "off"]
    /\ req = [p \in Clients |-> [id |-> 0, route |-> "demo", body |-> NoBody]]
    /\ ops = [p \in Clients |-> <<>>]
    /\ loc = [p \in Clients |-> NoLocals]
    /\ resp = [p \in Clients |-> <<>>]
    /\ started = 0
    /\ faults = IngestFaults
    /\ hist = [fetched |-> FALSE, returned |-> [r \in VectorRoutes |-> <<0, 0>>]]
    /\ text = "" /\ question = "" /\ maxLength = DefaultMaxLength
    /\ pc = "idle" /\ ranked = <<>> /\ picked = <<>> /\ result = ""
    /\ raw = "" /\ clean = "" /\ passes = 0
    /\ FnIdle /\ ChatIdle

\* What the ingestion steps leave alone.
ingestFrame ==
    <<rankVars, cleanVars, cacheVars, awaiting, req, ops, loc, resp, started, hist,
      fnVars, chatVars, works, remote>>

\* The catch of POST: the error's message is sent with status 500.
thrown(j) == [j EXCEPT !.at = "done", !.resp = Append(@, ingestFailure(SystemMessage))]

\* POST is called: await fs.mkdir(DATA_DIR, { recursive: true })
IngestPost(route) ==
    /\ job.at = "idle"
    /\ \E ok \in Outcomes :
         /\ settle(ok)
         /\ IF ok
            THEN /\ dirExists' = TRUE
                 /\ job' = [job EXCEPT !.route = route, !.at = "fetch"]
            ELSE /\ dirExists' = dirExists
                 /\ job' = thrown([job EXCEPT !.route = route])
    /\ UNCHANGED <<ingestFrame, files>>

\* After the loop of /api/ingest: without a chunk the 500 'No Shakespeare
\* works ...' is sent, otherwise Chroma.fromTexts is awaited.
afterPlays(j) ==
    IF ~j.chunks
    THEN [j EXCEPT !.at = "done", !.resp = Append(@, ingestFailure(NoWorksMessage))]
    ELSE [j EXCEPT !.at = "build"]

\* The loop of /api/ingest goes on to the next work, or ends.
nextPlay(j) == IF Len(j.texts) < Len(Works) THEN [j EXCEPT !.at = "fetch"] ELSE afterPlays(j)

\* const playText = await fetchPlayText(work.path): axios.get resolves with
\* the page or rejects, and a rejection is caught and '' returned.
PlayFetch ==
    /\ job.route = "ingest" /\ job.at = "fetch"
    /\ \E ok \in Outcomes :
         /\ settle(ok)
         /\ LET page == works[Works[Len(job.texts) + 1]]
                playText == IF ok /\ page.ok THEN page.text ELSE ""
                j == [job EXCEPT !.texts = Append(@, playText), !.text = playText]
            IN  job' = IF meaningful(playText) THEN [j EXCEPT !.at = "write"] ELSE nextPlay(j)
    /\ UNCHANGED <<ingestFrame, dirExists, files>>

\* await fs.writeFile(<name>.txt, playText), the split of the text and
\* totalPlays++
PlayWrite ==
    /\ job.route = "ingest" /\ job.at = "write"
    /\ \E ok \in Outcomes :
         /\ settle(ok)
         /\ LET name == Works[Len(job.texts)]
            IN  IF ok
                THEN /\ files' = ((name \o ".txt") :> job.text) @@ files
                     /\ job' = nextPlay([job EXCEPT !.plays = Append(@, name),
                                                    !.chunks = @ \/ hasChunks(<<job.text>>)])
                ELSE /\ files' = files
                     /\ job' = thrown(job)
    /\ UNCHANGED <<ingestFrame, dirExists>>

\* await Chroma.fromTexts(allChunks, ...) and the 200 with plays: totalPlays
PlayBuild ==
    /\ job.route = "ingest" /\ job.at = "build"
    /\ \E ok \in Outcomes :
         /\ settle(ok)
         /\ job' = IF ok
                   THEN [job EXCEPT !.at = "done",
                                    !.resp = Append(@, ingested(Len(job.plays), ""))]
                   ELSE thrown(job)
    /\ UNCHANGED <<ingestFrame, dirExists, files>>

\* The loop of /api/ingest-mit over Object.entries(plays): the entries of at
\* most 100 characters are passed over.
RECURSIVE toWrite(_)
toWrite(entries) ==
    IF entries = <<>> \/ meaningful(Head(entries).text) THEN entries
    ELSE toWrite(Tail(entries))

\* const fullText = await fetchMITShakespeareText(); const plays =
\* extractPlays(fullText), up to the first await of the loop
MitFetch ==
    /\ job.route = "ingest-mit" /\ job.at = "fetch"
    /\ \E ok \in Outcomes :
         /\ settle(ok)
         /\ job' = IF ok
                   THEN LET plays == extractPlays(remote.cleaned)
                        IN  [job EXCEPT !.text = remote.cleaned, !.plays = plays,
                                        !.toSave = toWrite(plays),
                                        !.at = IF toWrite(plays) # <<>> THEN "write"
                                               ELSE "writeWorks"]
                   ELSE thrown(job)
    /\ UNCHANGED <<ingestFrame, dirExists, files>>

\* await fs.writeFile(path.join(DATA_DIR, filename), playText)
MitWritePlay ==
    /\ job.route = "ingest-mit" /\ job.at = "write"
    /\ \E ok \in Outcomes :
         /\ settle(ok)
         /\ LET entry == Head(job.toSave)
                rest == toWrite(Tail(job.toSave))
            IN  IF ok
                THEN /\ files' = (fileNameOf(entry.name) :> entry.text) @@ files
                     /\ job' = [job EXCEPT !.toSave = rest,
                                           !.at = IF rest # <<>> THEN "write" ELSE "writeWorks"]
                ELSE /\ files' = files
                     /\ job' = thrown(job)
    /\ UNCHANGED <<ingestFrame, dirExists>>

\* await fs.writeFile(complete_works.txt, fullText)
MitWriteWorks ==
    /\ job.route = "ingest-mit" /\ job.at = "writeWorks"
    /\ \E ok \in Outcomes :
         /\ settle(ok)
         /\ IF ok
            THEN /\ files' = (CompleteWorks :> job.text) @@ files
                 /\ job' = [job EXCEPT !.at = "writeIndex"]
            ELSE /\ files' = files
                 /\ job' = thrown(job)
    /\ UNCHANGED <<ingestFrame, dirExists>>

\* await fs.writeFile(index.json, ...) and the 200 with plays:
\* Object.keys(plays).length
MitWriteIndex ==
    /\ job.route = "ingest-mit" /\ job.at = "writeIndex"
    /\ \E ok \in Outcomes :
         /\ settle(ok)
         /\ IF ok
            THEN /\ files' = ("index.json" :> "{ \"source\": \"MIT OpenCourseWare\" }") @@ files
                 /\ job' = [job EXCEPT !.at = "done",
                                       !.resp = Append(@, ingested(Len(job.plays),
                                                                   "MIT OpenCourseWare"))]
            ELSE /\ files' = files
                 /\ job' = thrown(job)
    /\ UNCHANGED <<ingestFrame, dirExists>>

NextIngest ==
    \/ \E route \in {"ingest", "ingest-mit"} : IngestPost(route)
    \/ PlayFetch \/ PlayWrite \/ PlayBuild
    \/ MitFetch \/ MitWritePlay \/ MitWriteWorks \/ MitWriteIndex

SpecIngest == InitIngest /\ [][NextIngest]_vars

\* The works whose fetched text has more than MinPlayLen characters.
Passed == {k \in 1..Len(job.texts) : Len(job.texts[k]) > MinPlayLen}

\* The works whose fetch failed: the URL serves nothing or the request was
\* rejected.
FetchFailed == {k \in 1..Len(job.texts) : job.texts[k] = ""}

TitlesIn(corpus) == {t \in 1..Len(playTitles) : includes(corpus, playTitles[t])}

\* C30: after a successful MIT ingestion every listed title that occurs in
\* the corpus has an entry and a saved file, every entry's text begins with
\* its own title and holds no other title of the corpus, and the 200 reports
\* as plays the number of listed titles in the corpus.
C30_EveryTitleExtracted ==
    (job.route = "ingest-mit" /\ job.at = "done" /\ job.resp[1].status = 200) =>
        /\ job.resp[1].plays = Cardinality(TitlesIn(job.text))
        /\ \A t \in TitlesIn(job.text) :
              /\ \E k \in 1..Len(job.plays) : job.plays[k].name = playTitles[t]
              /\ fileNameOf(playTitles[t]) \in DOMAIN files
        /\ \A k \in 1..Len(job.plays) :
              TitlesIn(job.plays[k].text) = {t \in TitlesIn(job.text) :
                                                playTitles[t] = job.plays[k].name}

====
